---- MODULE Spec2Model ----
(***************************************************************************)
(* A model of ig_miner: the Feed Client's paginated fetch (api.py), the    *)
(* Storage Port backends (sqlite_store.py, json_store.py,                  *)
(* supabase_store.py), the Harvest Orchestrator (scraper.py) and the       *)
(* Daemon Controller (daemon.py).                                          *)
(*                                                                         *)
(* Each component has its own specification over its own variables; the    *)
(* variables of the other components are held at their idle values.        *)
(*   SpecFetch   fetch_hashtag_posts, one action per loop iteration        *)
(*   SpecUser    sequences of upsert_user calls on one backend             *)
(*   SpecPost    sequences of upsert_post calls on one backend             *)
(*   SpecScrape  sequences of scrape_hashtag calls on one backend          *)
(*   SpecDaemon  run_daemon, one action per step between two waits         *)
(***************************************************************************)
EXTENDS Integers, Sequences, FiniteSets, TLC

VARIABLES
    \* ---- fetch_hashtag_posts (api.py 87-162) ----
    f_pc,        \* "idle" | "loop" | "done" | "raised"
    f_maxPages,  \* the max_pages argument
    f_page,      \* the next value of `page` that range(max_pages) yields
    f_cursor,    \* next_cursor (None or a continuation token)
    f_all,       \* all_posts, as the sequence of their codes
    f_seen,      \* seen_codes
    f_exit,      \* why the loop was left
    f_nreq,      \* observation: number of HTTP requests issued by this call
    f_okPages    \* observation: every page answered with success: its medias,
                 \* its more_available flag and the number of the request

VARIABLES
    \* ---- the Storage Port (storage/*.py) ----
    storage,     \* the backend instance: its kind and what it holds
    st_call,     \* observation: the last Storage Port call and its argument
    st_ok        \* observation: the success flag the last upsert returned

VARIABLES
    \* ---- scrape_hashtag (scraper.py 32-123) ----
    s_pc,        \* "idle" | "posts" | "enrich" | "returned" | "raised"
    s_feed,      \* what fetch_hashtag_posts returns for the hashtag now
    s_download,  \* the download_images argument
    s_enrich,    \* the enrich_users argument
    s_new,       \* new_posts still to be stored
    s_usersSeen, \* users_seen
    s_stored,    \* stored
    s_toEnrich,  \* to_enrich still to be fetched
    s_ret,       \* the value returned
    s_postCalls, \* observation: the codes passed to upsert_post by this call
    s_userCalls, \* observation: the usernames passed to upsert_user by this call
    s_writesOk,  \* observation: every upsert_post of this call returned True
    s_readOk,    \* observation: get_existing_codes read the whole table
    s_rerun,     \* observation: this call repeats the call before it
    s_obs        \* observation: the codes stored and the snapshot read when
                 \* the call began, what became of the media of the post
                 \* handled last and the dict passed to upsert_post for it

VARIABLES
    \* ---- run_daemon (daemon.py 18-139) ----
    d_pc,        \* the statement run_daemon is at
    d_exit,      \* "none" | "graceful" (it returned) | "raised" (an exception
                 \* or SystemExit left it at d_pc)
    d_running,   \* running
    d_pid,       \* the file igminer_daemon.pid exists
    d_closed,    \* storage.close() was called
    d_cookies,   \* cookies: "none" | "file" (load_cookies) | "fresh" (refresh_cookies)
    d_count,     \* what storage.get_post_count() returns now
    d_startCount,\* db_count as read at the start of the cycle, -1 before it
    d_todo,      \* the hashtags the running for loop has still to yield
    d_scraped,   \* observation: scrape_hashtag was called in this cycle
    d_event,     \* observation: how the last scrape_hashtag call ended
    d_obs        \* observation: the comment passes of the cycle, the hashtags
                 \* crawled in the pass, the arguments of the last crawl

VARIABLES
    \* ---- get_posts_needing_comments (storage/*.py) ----
    n_asked,     \* get_posts_needing_comments was the last call
    n_limit,     \* its limit argument
    n_readsOk,   \* every read the call made of the backend succeeded
    n_result,    \* the codes of the posts it returned, in order
    \* ---- one instance of every backend, given the same calls ----
    e_stores,    \* backend name -> the instance
    e_calls,     \* the number of calls made
    \* ---- shortcode_to_media_pk (api.py) ----
    decoded,     \* two codes and what the function returned for each
    \* ---- fetch_comments (api.py) ----
    fc,          \* the call: its place, its locals and what it was served
    \* ---- JSONStorage and its output directory (storage/json_store.py) ----
    js           \* the buffer of one entity type, the files, the clock

fetchVars == <<f_pc, f_maxPages, f_page, f_cursor, f_all, f_seen, f_exit,
               f_nreq, f_okPages>>
storeObs == <<st_call, st_ok>>
storeVars == <<storage, st_call, st_ok>>
scrapeVars == <<s_pc, s_feed, s_download, s_enrich, s_new, s_usersSeen,
                s_stored, s_toEnrich, s_ret, s_postCalls, s_userCalls,
                s_writesOk, s_readOk, s_rerun, s_obs>>
daemonVars == <<d_pc, d_exit, d_running, d_pid, d_closed, d_cookies, d_count,
                d_startCount, d_todo, d_scraped, d_event, d_obs>>
moreVars == <<n_asked, n_limit, n_readsOk, n_result, e_stores, e_calls,
              decoded, js, fc>>

vars == <<fetchVars, storeVars, scrapeVars, daemonVars, moreVars>>

(***************************************************************************)
(* Python's None and a present value.                                      *)
(***************************************************************************)
None == <<>>
Some(v) == <<v>>

(***************************************************************************)
(* Bounds of the model.                                                    *)
(***************************************************************************)
MaxPages == 3
\* The target argument of run_daemon and the largest stored-post count.
Target == 2
MaxCount == 3
\* The largest limit argument of get_posts_needing_comments.
MaxLimit == 2
\* The longest sequence of calls given to the three backends side by side.
MaxCalls == 3
\* The longest shortcode decoded.
MaxCodeLen == 2

(***************************************************************************)
(*                         FEED CLIENT (api.py)                            *)
(***************************************************************************)

\* What one page of the sections endpoint may list: the `code` of each media
\* entry, in order; "" stands for an entry without a code.  A page may repeat
\* an entry.
Pages == { <<>>, <<"a">>, <<"a", "a">>, <<"", "b">>, <<"b", "a">> }

\* next_max_id of a response: absent, or a token.
Cursors == { None, Some("c1"), Some("c2") }

\* api.py 139-148: the codes one page adds to all_posts, in order, skipping
\* entries without a code and codes already in seen_codes.
RECURSIVE PagePosts(_, _)
PagePosts(medias, seen) ==
    IF medias = <<>> THEN <<>>
    ELSE LET code == Head(medias) IN
         IF code = "" \/ code \in seen
         THEN PagePosts(Tail(medias), seen)
         ELSE <<code>> \o PagePosts(Tail(medias), seen \cup {code})

SeqToSet(s) == { s[i] : i \in 1..Len(s) }

\* api.py 109: `for page in range(max_pages)` after an iteration that ended
\* without `break`: the next value is taken, or the loop is exhausted.
LoopNext(page, maxPages) ==
    IF page + 1 < maxPages THEN "loop" ELSE "done"

\* api.py 130: `continue` in the 429 branch of the `for` loop: the next
\* iteration runs with the next value of `page`.
PageAfter429_same(page) == page
PageAfter429(page) == page + 1

\* api.py 157-158: `if not more: break`.
StopsAfter_never(more) == FALSE
StopsAfter(more) == ~more

\* api.py 122-124, 132-134, 162: on a transport failure or a non-success
\* status the loop is left and `return all_posts` returns what was collected.
ResultOnFailure_empty(all) == <<>>
ResultOnFailure(all) == all

\* fetch_hashtag_posts is called with max_pages = mp.
FetchCall(mp) ==
    /\ f_pc \in {"idle", "done", "raised"}
    /\ UNCHANGED <<storeVars, scrapeVars, daemonVars, moreVars>>
    /\ f_maxPages' = mp
    /\ f_page' = 0
    /\ f_cursor' = None
    /\ f_all' = <<>>
    /\ f_seen' = {}
    /\ f_nreq' = 0
    /\ f_okPages' = <<>>
    /\ IF mp = 0
       THEN f_pc' = "done" /\ f_exit' = "exhausted"
       ELSE f_pc' = "loop" /\ f_exit' = "none"

\* api.py 114-124: http.post raises RequestException.
FetchTransportError ==
    /\ f_pc = "loop"
    /\ UNCHANGED <<storeVars, scrapeVars, daemonVars, moreVars>>
    /\ f_nreq' = f_nreq + 1
    /\ f_pc' = "done"
    /\ f_exit' = "transport"
    /\ f_all' = ResultOnFailure(f_all)
    /\ UNCHANGED <<f_maxPages, f_page, f_cursor, f_seen, f_okPages>>

\* api.py 126-130: status 429: sleep 30-60 s, then `continue`.
FetchRateLimited ==
    /\ f_pc = "loop"
    /\ UNCHANGED <<storeVars, scrapeVars, daemonVars, moreVars>>
    /\ f_nreq' = f_nreq + 1
    /\ f_page' = PageAfter429(f_page)
    /\ f_pc' = LoopNext(f_page, f_maxPages)
    /\ f_exit' = IF f_pc' = "done" THEN "exhausted" ELSE "none"
    /\ UNCHANGED <<f_maxPages, f_cursor, f_all, f_seen, f_okPages>>

\* api.py 132-134: any other non-success status.
FetchHttpError ==
    /\ f_pc = "loop"
    /\ UNCHANGED <<storeVars, scrapeVars, daemonVars, moreVars>>
    /\ f_nreq' = f_nreq + 1
    /\ f_pc' = "done"
    /\ f_exit' = "http"
    /\ f_all' = ResultOnFailure(f_all)
    /\ UNCHANGED <<f_maxPages, f_page, f_cursor, f_seen, f_okPages>>

\* api.py 136: a success status with a body that is no JSON: r.json() raises,
\* outside the try block, and the exception leaves fetch_hashtag_posts.
FetchNonJson ==
    /\ f_pc = "loop"
    /\ UNCHANGED <<storeVars, scrapeVars, daemonVars, moreVars>>
    /\ f_nreq' = f_nreq + 1
    /\ f_pc' = "raised"
    /\ f_exit' = "nonjson"
    /\ UNCHANGED <<f_maxPages, f_page, f_cursor, f_all, f_seen, f_okPages>>

\* api.py 136-160: a success status with a JSON body listing `medias`,
\* more_available = more and next_max_id = next.
FetchOk(medias, more, next) ==
    /\ f_pc = "loop"
    /\ UNCHANGED <<storeVars, scrapeVars, daemonVars, moreVars>>
    /\ f_nreq' = f_nreq + 1
    /\ f_okPages' = Append(f_okPages,
                           [medias |-> medias, more |-> more, req |-> f_nreq'])
    /\ LET pagePosts == PagePosts(medias, f_seen) IN
          /\ f_all' = f_all \o pagePosts
          /\ f_seen' = f_seen \cup SeqToSet(pagePosts)
    /\ f_cursor' = next
    /\ IF StopsAfter(more)
       THEN /\ f_pc' = "done"
            /\ f_exit' = "nomore"
            /\ f_page' = f_page
       ELSE /\ f_page' = f_page + 1
            /\ f_pc' = LoopNext(f_page, f_maxPages)
            /\ f_exit' = IF f_pc' = "done" THEN "exhausted" ELSE "none"
    /\ UNCHANGED <<f_maxPages>>

(***************************************************************************)
(*                 SHORTCODE DECODING (api.py, constants.py)               *)
(*                                                                         *)
(* A code is the sequence of its characters.                               *)
(***************************************************************************)
\* constants.py 7-9
SHORTCODE_ALPHABET ==
    << "A", "B", "C", "D", "E", "F", "G", "H", "I", "J", "K", "L", "M",
       "N", "O", "P", "Q", "R", "S", "T", "U", "V", "W", "X", "Y", "Z",
       "a", "b", "c", "d", "e", "f", "g", "h", "i", "j", "k", "l", "m",
       "n", "o", "p", "q", "r", "s", "t", "u", "v", "w", "x", "y", "z",
       "0", "1", "2", "3", "4", "5", "6", "7", "8", "9", "-", "_" >>

\* str.index(char): the zero-based place of the character; None stands for
\* the ValueError of a character the string does not hold.
Index(string, char) ==
    IF \E i \in 1..Len(string) : string[i] = char
    THEN Some((CHOOSE i \in 1..Len(string) :
                 string[i] = char /\ \A j \in 1..(i - 1) : string[j] # char) - 1)
    ELSE None

\* api.py 41: one round of the loop.
Accumulate_sum(pk, index) == pk + index
Accumulate(pk, index) == pk * 64 + index

\* api.py 37-42: shortcode_to_media_pk(code); None when it raises ValueError.
RECURSIVE ShortcodeToMediaPk(_)
ShortcodeToMediaPk(code) ==
    IF code = <<>> THEN Some(0)
    ELSE LET pk    == ShortcodeToMediaPk(SubSeq(code, 1, Len(code) - 1))
             index == Index(SHORTCODE_ALPHABET, code[Len(code)])
         IN  IF pk = None \/ index = None THEN None
             ELSE Some(Accumulate(pk[1], index[1]))

\* The characters the codes are drawn from: the first two and the last of
\* the alphabet and one that is not in it.
CodeChars == {"A", "B", "_", "!"}

SampleCodes ==
    UNION { [1..n -> CodeChars] : n \in 1..MaxCodeLen }

\* shortcode_to_media_pk is called for two codes, once in a behaviour.
DecodePair(a, b) ==
    /\ decoded.a = <<>> /\ decoded.b = <<>>
    /\ decoded' = [a |-> a, b |-> b,
                pkA |-> ShortcodeToMediaPk(a), pkB |-> ShortcodeToMediaPk(b)]

(***************************************************************************)
(*                      COMMENT PAGINATION (api.py)                        *)
(*                                                                         *)
(* fc.pc is "idle", "loop" (before the request of an iteration), "done"    *)
(* (fetch_comments returned fc.all) or "raised"; fc.exit tells how the     *)
(* loop was left; fc.page, fc.min_id and fc.all are the locals page,       *)
(* min_id and all_comments; fc.nreq counts the requests and fc.okPages     *)
(* lists the pages served with success, each with the number of the        *)
(* request that fetched it.                                                *)
(***************************************************************************)
CommentsFrame(pc, exit, maxPages, page, min_id, all, nreq, okPages) ==
    [pc |-> pc, exit |-> exit, maxPages |-> maxPages, page |-> page,
     min_id |-> min_id, all |-> all, nreq |-> nreq, okPages |-> okPages]

\* The comments one page may list, by their pk.
CommentPages == { <<>>, <<"k1">>, <<"k2", "k1">> }

\* api.py 234-238: `if not result.get("has_more_comments"): break`, then
\* `min_id = result.get("next_min_id")` and `if not min_id: break`.
StopsAfterComments_more(more, next) == ~more
StopsAfterComments(more, next) == ~more \/ next = None

\* api.py 180-187: fetch_comments(post_code, cookies, max_pages = mp);
\* shortcode_to_media_pk raises for a code with a foreign character.
CommentsCall(post_code, mp) ==
    /\ fc.pc \in {"idle", "done", "raised"}
    /\ fc' = IF ShortcodeToMediaPk(post_code) = None
             THEN CommentsFrame("raised", "code", mp, 0, None, <<>>, 0, <<>>)
             ELSE IF mp = 0
             THEN CommentsFrame("done", "exhausted", mp, 0, None, <<>>, 0, <<>>)
             ELSE CommentsFrame("loop", "none", mp, 0, None, <<>>, 0, <<>>)

\* api.py 192-201: http.get raises RequestException ("transport"); 206-207:
\* a status that is neither success nor 429 ("http"); 209-212: a content
\* type without "json" ("non_json").  Each is a `break`, and `return
\* all_comments` (241) follows.
CommentsBreak(exit) ==
    /\ fc.pc = "loop"
    /\ fc' = [fc EXCEPT !.pc = "done", !.exit = exit, !.nreq = @ + 1]

\* api.py 203-205: status 429: sleep 30-60 s, then `continue`.
CommentsRateLimited ==
    /\ fc.pc = "loop"
    /\ fc' = [fc EXCEPT !.nreq = @ + 1,
                        !.page = PageAfter429(@),
                        !.pc = LoopNext(fc.page, fc.maxPages),
                        !.exit = IF LoopNext(fc.page, fc.maxPages) = "done"
                                 THEN "exhausted" ELSE "none"]

\* api.py 214: the content type names JSON and the body is none: r.json()
\* raises, outside the try block.
CommentsBodyRaises ==
    /\ fc.pc = "loop"
    /\ fc' = [fc EXCEPT !.pc = "raised", !.exit = "body", !.nreq = @ + 1]

\* api.py 214-239: a JSON body listing `comments`, has_more_comments = more
\* and next_min_id = next.
CommentsOk(comments, more, next) ==
    /\ fc.pc = "loop"
    /\ LET stops == StopsAfterComments(more, next)
           pc    == IF stops THEN "done" ELSE LoopNext(fc.page, fc.maxPages)
       IN fc' = [fc EXCEPT
                   !.nreq = @ + 1,
                   !.okPages = Append(@, [comments |-> comments, more |-> more,
                                          next |-> next, req |-> fc.nreq + 1]),
                   !.all = @ \o comments,
                   !.min_id = IF more THEN next ELSE @,
                   !.page = IF stops THEN @ ELSE @ + 1,
                   !.pc = pc,
                   !.exit = IF ~more THEN "no_more"
                            ELSE IF stops THEN "no_min_id"
                            ELSE IF pc = "done" THEN "exhausted" ELSE "none"]

(***************************************************************************)
(*                     STORAGE PORT (storage/*.py)                         *)
(***************************************************************************)

Backends == {"sqlite", "json", "supabase"}
Usernames == {"alice"}
Codes == {"a", "b"}

\* json_store.py 40, 46, 52: a buffer is flushed when it holds this many records.
FlushThreshold == 100

(***************************************************************************)
(* User records.  A stored row has the columns of the users table          *)
(* (sqlite_store.py 32-43) but profile_pic_url, which every statement      *)
(* treats as it treats bio, and scraped_at.  An incoming record is a       *)
(* Python dict: `keys` are the keys it has.  The callers build two shapes: *)
(* the minimal record (scraper.py 86-91, supabase_store.py 82-86) and the  *)
(* full profile (api.py 273-287).                                          *)
(***************************************************************************)
Texts == {None, Some(""), Some("x")}
Counts == {None, Some(7)}

MinimalKeys == {"full_name", "is_verified"}
ProfileKeys == {"full_name", "bio", "followers", "following", "post_count",
                "is_verified", "is_private"}

UserRecord(keys, fn, bio, fo, fg, pc, ver, priv) ==
    [keys |-> keys, full_name |-> fn, bio |-> bio, followers |-> fo,
     following |-> fg, post_count |-> pc, is_verified |-> ver,
     is_private |-> priv]

\* scraper.py 86-91: full_name is whatever the post carries; the
\* supabase_store.py 82-86 record is the one with full_name "" and
\* is_verified False.
MinimalUsers ==
    { UserRecord(MinimalKeys, fn, None, None, None, None, ver, FALSE) :
        fn \in Texts, ver \in BOOLEAN }

\* api.py 273-287: full_name and bio are strings (`or ""`), a counter is None
\* when the profile lacks its edge.  The profiles drawn here have a full_name
\* and report following and post_count together.
ProfileUsers ==
    { UserRecord(ProfileKeys, Some("x"), bio, fo, fg, fg, ver, priv) :
        bio \in Texts \ {None}, fo \in Counts, fg \in Counts,
        ver \in BOOLEAN, priv \in BOOLEAN }

\* dict.get(key, default)
Get(d, key, default) == IF key \in d.keys THEN d[key] ELSE default

\* SQL COALESCE(excluded.col, users.col): the first argument that is not NULL.
\* The empty string is not NULL.
Coalesce_overwrite(new, old) == new
Coalesce(new, old) == IF new # None THEN new ELSE old

\* sqlite_store.py 123-133: the values bound to the INSERT.
SqliteUserValues(user) ==
    [full_name   |-> Get(user, "full_name", Some("")),
     bio         |-> Get(user, "bio", None),
     followers   |-> Get(user, "followers", None),
     following   |-> Get(user, "following", None),
     post_count  |-> Get(user, "post_count", None),
     is_verified |-> Get(user, "is_verified", FALSE),
     is_private  |-> Get(user, "is_private", FALSE)]

\* sqlite_store.py 110-122: INSERT ... ON CONFLICT(username) DO UPDATE SET.
\* `row` is the stored row of the username, None when there is none.
SqliteUpsertUser(row, user) ==
    LET v == SqliteUserValues(user) IN
    IF row = None THEN Some(v)
    ELSE LET old == row[1] IN
         Some([full_name   |-> Coalesce(v.full_name, old.full_name),
               bio         |-> Coalesce(v.bio, old.bio),
               followers   |-> Coalesce(v.followers, old.followers),
               following   |-> Coalesce(v.following, old.following),
               post_count  |-> Coalesce(v.post_count, old.post_count),
               is_verified |-> v.is_verified,
               is_private  |-> old.is_private])

\* supabase_store.py 43-54, 76-77: the dict is posted as it is with
\* Prefer: resolution=merge-duplicates: a new row takes the columns the dict
\* has and the defaults of the table for the others; an existing row has the
\* columns the dict has overwritten and keeps the others.
SupabaseMerge(old, record) ==
    [col \in DOMAIN old |-> IF col \in record.keys THEN record[col] ELSE old[col]]

UserDefaults ==
    [full_name |-> None, bio |-> None, followers |-> None, following |-> None,
     post_count |-> None, is_verified |-> FALSE, is_private |-> FALSE]

SupabaseUpsertUser(row, user) ==
    IF row = None THEN Some(SupabaseMerge(UserDefaults, user))
    ELSE Some(SupabaseMerge(row[1], user))

(***************************************************************************)
(* Post records.  A stored row has the columns of the posts table that the *)
(* Feed Client fills (sqlite_store.py 13-30) but hashtags, media_type,     *)
(* location_*, posted_at and word_count, which every statement treats as   *)
(* it treats caption.  storage_url is the pointer to the retrieved media:  *)
(* the dict's local_image_path for SQLite, its storage_url for Supabase    *)
(* (scraper.py 82-83 sets both to the same value).                         *)
(***************************************************************************)
PostRecord(code, un, cap, img, url, likes, cc, views) ==
    [code |-> code, username |-> un, caption |-> cap, image_url |-> img,
     storage_url |-> url, likes |-> likes, comments_count |-> cc,
     views |-> views]

\* The columns of a row: the record without its key.
PostColumns(post) ==
    [username |-> post.username, caption |-> post.caption,
     image_url |-> post.image_url, storage_url |-> post.storage_url,
     likes |-> post.likes, comments_count |-> post.comments_count,
     views |-> post.views]

\* sqlite_store.py 73-100: INSERT ... ON CONFLICT(code) DO UPDATE SET likes,
\* comments_count, views.  `row` is the stored row of the code, or None.
SqliteUpsertPost(row, post) ==
    IF row = None THEN Some(PostColumns(post))
    ELSE Some([row[1] EXCEPT !.likes = post.likes,
                             !.comments_count = post.comments_count,
                             !.views = post.views])

\* supabase_store.py 56-74: a dict with every column is posted with
\* Prefer: resolution=merge-duplicates (43-54), so an existing row has every
\* column overwritten; `username` is None for an empty username.
SupabaseUpsertPost(row, post) ==
    Some([PostColumns(post) EXCEPT
            !.username = IF post.username = "" THEN "null" ELSE post.username])

(***************************************************************************)
(* A backend instance.  users and posts are the tables of the relational   *)
(* and the remote backend, comment_posts the post_id values of the rows of *)
(* their comments table; existing_codes, buf_posts, buf_users and          *)
(* buf_comments are JSONStorage's _existing_codes and the lengths of its   *)
(* _posts, _users and _comments buffers (json_store.py 18-21).             *)
(***************************************************************************)
NewStorage(backend) ==
    [backend        |-> backend,
     users          |-> [u \in Usernames |-> None],
     posts          |-> [c \in Codes |-> None],
     existing_codes |-> {},
     buf_posts      |-> 0,
     buf_users      |-> 0,
     comment_posts  |-> {},
     buf_comments   |-> 0]

\* json_store.py 38-42, 44-48: append, then flush a buffer that has reached
\* the threshold (69-78, 80-88: the flush empties the buffer).
BufferAfterAppend(len) ==
    IF len + 1 >= FlushThreshold THEN 0 ELSE len + 1

\* upsert_user(user) on st, the statement succeeding.
UpsertUser(st, username, user) ==
    CASE st.backend = "sqlite" ->
            [st EXCEPT !.users[username] = SqliteUpsertUser(@, user)]
      [] st.backend = "supabase" ->
            [st EXCEPT !.users[username] = SupabaseUpsertUser(@, user)]
      [] st.backend = "json" ->
            [st EXCEPT !.buf_users = BufferAfterAppend(@)]

\* upsert_post(post) on st, the statement succeeding.
UpsertPost(st, post) ==
    CASE st.backend = "sqlite" ->
            [st EXCEPT !.posts[post.code] = SqliteUpsertPost(@, post)]
      [] st.backend = "supabase" ->
            [st EXCEPT !.posts[post.code] = SupabaseUpsertPost(@, post)]
      [] st.backend = "json" ->
            [st EXCEPT !.existing_codes = @ \cup {post.code},
                       !.buf_posts = BufferAfterAppend(@)]

\* sqlite_store.py 102-106, 135-139: sqlite3.Error is caught and False is
\* returned; supabase_store.py 50-54: a non-success response is returned as
\* False; json_store.py 37-48: always True.
CanFail(st) == st.backend # "json"

\* get_existing_codes(): sqlite_store.py 163-165, supabase_store.py 89-104
\* (every read succeeding), json_store.py 56-57.
GetExistingCodes(st) ==
    IF st.backend = "json" THEN st.existing_codes
    ELSE { c \in Codes : st.posts[c] # None }

\* get_post_count(): sqlite_store.py 173-175, supabase_store.py 115-128,
\* json_store.py 62-63.
GetPostCount(st) ==
    IF st.backend = "json"
    THEN Cardinality(st.existing_codes) + st.buf_posts
    ELSE Cardinality({ c \in Codes : st.posts[c] # None })

\* supabase_store.py 82-86: the user record upsert_comment writes first.
CommentAuthorRecord ==
    UserRecord(MinimalKeys, Some(""), None, None, None, None, FALSE, FALSE)

\* upsert_comment(comment) on st, the statements succeeding: the comment has
\* post_id `code` and username `username` ("" for none).  sqlite_store.py
\* 141-161 inserts the row; supabase_store.py 79-87 upserts the author's user
\* row and then the comment; json_store.py 50-54 appends to the buffer.
UpsertComment(st, code, username) ==
    CASE st.backend = "sqlite" ->
            [st EXCEPT !.comment_posts = @ \cup {code}]
      [] st.backend = "supabase" ->
            LET withUser ==
                    IF username \in Usernames
                    THEN UpsertUser(st, username, CommentAuthorRecord)
                    ELSE st
            IN  [withUser EXCEPT !.comment_posts = @ \cup {code}]
      [] st.backend = "json" ->
            [st EXCEPT !.buf_comments = BufferAfterAppend(@)]

\* The likes column of the stored row of a code.
LikesOf(st, code) == st.posts[code][1].likes

\* ORDER BY likes DESC LIMIT limit over the rows `cand`: every sequence the
\* database may answer with (rows of equal likes come in any order).
TopByLikes(st, cand, limit) ==
    LET n == IF Cardinality(cand) < limit THEN Cardinality(cand) ELSE limit IN
    { q \in [1..n -> cand] :
        /\ \A i, j \in 1..n : i < j =>
              /\ q[i] # q[j]
              /\ LikesOf(st, q[i]) >= LikesOf(st, q[j])
        /\ \A c \in cand \ { q[i] : i \in 1..n } :
              \A i \in 1..n : LikesOf(st, q[i]) >= LikesOf(st, c) }

\* The rows of posts with comments_count > 0.
PostsWithComments(st) ==
    { c \in Codes : st.posts[c] # None /\ st.posts[c][1].comments_count > 0 }

\* sqlite_store.py 177-186: one statement that filters on comments_count > 0
\* and on the absence of a comment row, orders by likes and then limits.
SqliteNeedingComments(st, limit) ==
    TopByLikes(st, PostsWithComments(st) \ st.comment_posts, limit)

\* supabase_store.py 130-154: the first GET filters on comments_count > 0,
\* orders and limits (a failed GET returns []); the second GET reads the
\* post_id of every comment, and the posts of the first answer that have one
\* are dropped (a failed second GET leaves existing_ids empty).
SupabaseNeedingComments(st, limit, postsOk, commentsOk) ==
    IF ~postsOk THEN { <<>> }
    ELSE LET existing_ids == IF commentsOk THEN st.comment_posts ELSE {} IN
         { SelectSeq(posts, LAMBDA c : c \notin existing_ids) :
             posts \in TopByLikes(st, PostsWithComments(st), limit) }

\* get_posts_needing_comments(limit): the sequences of codes the call may
\* return.  json_store.py 65-67 returns [].
GetPostsNeedingComments(st, limit, postsOk, commentsOk) ==
    CASE st.backend = "sqlite" -> SqliteNeedingComments(st, limit)
      [] st.backend = "supabase" ->
            SupabaseNeedingComments(st, limit, postsOk, commentsOk)
      [] st.backend = "json" -> { <<>> }

(***************************************************************************)
(* Storage Port calls as actions.                                          *)
(***************************************************************************)
NoCall == [op |-> "none"]

\* upsert_user(user) for `username`; ok is whether the write succeeded.
UpsertUserCall(username, user, ok) ==
    /\ ok \/ CanFail(storage)
    /\ storage' = IF ok THEN UpsertUser(storage, username, user) ELSE storage
    /\ st_call' = [op |-> "upsert_user", username |-> username, arg |-> user]
    /\ st_ok' = ok

\* upsert_post(post); ok is whether the write succeeded.
UpsertPostCall(post, ok) ==
    /\ ok \/ CanFail(storage)
    /\ storage' = IF ok THEN UpsertPost(storage, post) ELSE storage
    /\ st_call' = [op |-> "upsert_post", arg |-> post]
    /\ st_ok' = ok

\* upsert_comment(comment), the write succeeding.
UpsertCommentCall(code, username) ==
    /\ storage' = UpsertComment(storage, code, username)
    /\ st_call' = [op |-> "upsert_comment", post_id |-> code,
                   username |-> username]
    /\ st_ok' = TRUE

StorageIdle ==
    /\ storage = NewStorage("sqlite")
    /\ st_call = NoCall
    /\ st_ok = TRUE

\* get_posts_needing_comments(limit); postsOk and commentsOk are whether the
\* remote backend's two reads succeed (the other backends always read).
PostsNeedingCommentsCall(limit, postsOk, commentsOk) ==
    /\ (postsOk /\ commentsOk) \/ storage.backend = "supabase"
    /\ n_asked' = TRUE
    /\ n_limit' = limit
    /\ n_readsOk' = (postsOk /\ commentsOk)
    /\ n_result' \in
          GetPostsNeedingComments(storage, limit, postsOk, commentsOk)
    /\ UNCHANGED <<e_stores, e_calls, decoded, js, fc>>

(***************************************************************************)
(* JSONStorage and its output directory (json_store.py).  The three        *)
(* entity types have the same code and separate buffers and file names:    *)
(* js is one of them.  Records are numbered in the order of the upserts;   *)
(* js.buf is the buffer, js.passed the number of records passed so far,    *)
(* js.files maps a timestamp (the second datetime.now() falls in) to the   *)
(* records of the file of that name, {} when there is none, js.clock is    *)
(* the current second and js.closed tells that close() returned.           *)
(***************************************************************************)
MaxClock == 2
MaxUpserts == 201

\* json_store.py 15-22, with an empty output directory.
JsonNew ==
    [buf |-> {}, passed |-> 0, files |-> [t \in 0..MaxClock |-> {}],
     clock |-> 0, closed |-> FALSE]

\* json_store.py 69-78 (80-88, 90-98): nothing for an empty buffer, else the
\* file named after the current second is opened with "w" and the buffer
\* dumped and cleared.
FlushBuffer(j) ==
    IF j.buf = {} THEN j
    ELSE [j EXCEPT !.files[j.clock] = j.buf, !.buf = {}]

\* json_store.py 37-42 (44-48, 50-54): append, flush at the threshold.
JsonUpsert(j) ==
    LET appended == [j EXCEPT !.passed = @ + 1, !.buf = @ \cup {j.passed + 1}]
    IN  IF Cardinality(appended.buf) >= FlushThreshold
        THEN FlushBuffer(appended)
        ELSE appended

\* json_store.py 100-103.
JsonClose(j) == [FlushBuffer(j) EXCEPT !.closed = TRUE]

MoreIdle ==
    /\ n_asked = FALSE
    /\ n_limit = 0
    /\ n_readsOk = TRUE
    /\ n_result = <<>>
    /\ e_stores = [b \in Backends |-> NewStorage(b)]
    /\ e_calls = 0
    /\ decoded = [a |-> <<>>, b |-> <<>>, pkA |-> Some(0), pkB |-> Some(0)]
    /\ fc = CommentsFrame("idle", "none", 0, 0, None, <<>>, 0, <<>>)
    /\ js = JsonNew

(***************************************************************************)
(*                   HARVEST ORCHESTRATOR (scraper.py)                     *)
(***************************************************************************)

\* What fetch_hashtag_posts returns to scrape_hashtag: posts with distinct,
\* non-empty codes (api.py 142-146).  An item is a post of the feed as the
\* server reports it at one time: `ver` selects its content and counters.
FeedItem(c, v) == [code |-> c, ver |-> v]

\* The feeds drawn: no post, one post, both posts in either order; the
\* server reports post "a" at two times and post "b" at one.
Feeds ==
    { <<>>, <<FeedItem("a", 1)>>, <<FeedItem("a", 2)>>, <<FeedItem("b", 1)>>,
      <<FeedItem("a", 1), FeedItem("b", 1)>>, <<FeedItem("b", 1), FeedItem("a", 2)>> }

\* The author of a post: the posts of code "a" are alice's, those of the
\* other codes carry no username.
AuthorOf(code) == IF code = "a" THEN "alice" ELSE ""

\* api.py 63-84: the dict parse_media builds for an item; url is the pointer
\* scraper.py 82-83 adds when the media was stored.
PostOf(item, url) ==
    IF item.ver = 1
    THEN PostRecord(item.code, AuthorOf(item.code), "c1", Some("i1"), url, 1, 0, None)
    ELSE PostRecord(item.code, AuthorOf(item.code), "c2", Some("i2"), url, 2, 1, Some(3))

\* scraper.py 86-91: the minimal user record built from a post; the display
\* name is the one the post carries.
MinimalUserOf(item) ==
    UserRecord(MinimalKeys, IF item.ver = 1 THEN Some("x") ELSE Some(""),
               None, None, None, None, FALSE, FALSE)

\* scraper.py 63: new_posts = [p for p in posts if p["code"] not in existing_codes]
NewPosts_all(posts, existing) == posts
NewPosts(posts, existing) ==
    SelectSeq(posts, LAMBDA p : p.code \notin existing)

\* supabase_store.py 89-104: a failed read ends the paging loop and the
\* codes read so far are returned: none, when the first read fails.
SnapshotCodes(st, readOk) ==
    IF st.backend = "supabase" /\ ~readOk THEN {} ELSE GetExistingCodes(st)

\* base.py 37-39: store_image of a backend that stores no media returns None
\* (JSONStorage does not override it).
CanStoreImage(st) == st.backend # "json"

\* get_enriched_users(): sqlite_store.py 167-171, supabase_store.py 106-113,
\* json_store.py 59-60.
GetEnrichedUsers(st) ==
    IF st.backend = "json" THEN {}
    ELSE { u \in Usernames : st.users[u] # None /\ st.users[u][1].followers # None }

\* The local variables of scrape_hashtag take these values.
ScrapeLocals(download, enrich, new, usersSeen, stored, toEnrich) ==
    /\ s_download' = download
    /\ s_enrich' = enrich
    /\ s_new' = new
    /\ s_usersSeen' = usersSeen
    /\ s_stored' = stored
    /\ s_toEnrich' = toEnrich

\* scrape_hashtag is over: it returned ret or raised; its locals are gone.
ScrapeEnds(outcome, ret) ==
    /\ s_pc' = outcome
    /\ s_ret' = ret
    /\ ScrapeLocals(FALSE, FALSE, <<>>, {}, 0, {})

ScrapeIdle ==
    /\ s_pc = "idle"
    /\ s_feed = <<>>
    /\ s_download = FALSE
    /\ s_enrich = FALSE
    /\ s_new = <<>>
    /\ s_usersSeen = {}
    /\ s_stored = 0
    /\ s_toEnrich = {}
    /\ s_ret = 0
    /\ s_postCalls = {}
    /\ s_userCalls = {}
    /\ s_writesOk = TRUE
    /\ s_readOk = TRUE
    /\ s_rerun = "no"
    /\ s_obs = [before |-> {}, snapshot |-> {}, media |-> "none", post |-> None]

\* Whether a call that fetches feed repeats the call before it: that call
\* returned (it did not raise) and fetched the same feed.  A repeated call is
\* "clean" when every upsert_post of the call before it succeeded, "dirty"
\* when one of them failed.
Rerun(feed) ==
    IF s_pc = "returned" /\ feed = s_feed
    THEN (IF s_writesOk THEN "clean" ELSE "dirty")
    ELSE "no"

\* scrape_hashtag is entered; feed is what the server lists for the hashtag
\* at this time.
ScrapeEnter(feed, readOk) ==
    /\ s_pc \in {"idle", "returned", "raised"}
    /\ s_rerun' = Rerun(feed)
    /\ s_obs' = [before   |-> GetExistingCodes(storage),
                 snapshot |-> SnapshotCodes(storage, readOk),
                 media    |-> "none",
                 post     |-> None]
    /\ s_feed' = feed
    /\ s_readOk' = readOk
    /\ s_postCalls' = {}
    /\ s_userCalls' = {}
    /\ s_writesOk' = TRUE

\* scraper.py 55-68: scrape_hashtag is called: the snapshot of the existing
\* codes, the fetch (which returns the feed) and the partition; with no new
\* post it returns 0.
ScrapeCall(feed, download, enrich, readOk) ==
    /\ ScrapeEnter(feed, readOk)
    /\ readOk \/ storage.backend = "supabase"
    /\ LET new == NewPosts(feed, SnapshotCodes(storage, readOk)) IN
          IF new = <<>>
          THEN ScrapeEnds("returned", 0)
          ELSE /\ s_pc' = "posts"
               /\ s_ret' = 0
               /\ ScrapeLocals(download, enrich, new, {}, 0, {})
    /\ UNCHANGED storage

\* scraper.py 61: fetch_hashtag_posts raises (api.py 136: a body that is no
\* JSON); nothing is stored.
ScrapeFetchRaises(feed) ==
    /\ ScrapeEnter(feed, TRUE)
    /\ ScrapeEnds("raised", 0)
    /\ UNCHANGED storage

\* scraper.py 106-108: after the loop, the users to enrich.
ToEnrich(st, enrich, usersSeen) ==
    IF enrich THEN usersSeen \ GetEnrichedUsers(st) ELSE {}

\* scraper.py 77-83: what becomes of the media of a post: download_images
\* is off ("off"); download_image returned None ("no_bytes", 15-29: every
\* failure of the download is caught); store_image returned None ("absent":
\* base.py 37-39, supabase_store.py 157-158, 172-173; sqlite_store.py
\* 188-194 always returns a path); store_image returned a URL ("url").
MediaOutcomes(st, download) ==
    IF ~download THEN {"off"}
    ELSE {"no_bytes"}
         \cup (IF st.backend # "sqlite" THEN {"absent"} ELSE {})
         \cup (IF CanStoreImage(st) THEN {"url"} ELSE {})

\* scraper.py 73-103: one iteration of the loop over new_posts: the media,
\* the minimal user (userOk: upsert_user succeeded), the post (postOk:
\* upsert_post succeeded), stored += 1; after the last post, the enrichment
\* or the return.
ScrapePost(media, userOk, postOk) ==
    /\ s_pc = "posts"
    /\ media \in MediaOutcomes(storage, s_download)
    /\ userOk \/ (CanFail(storage) /\ AuthorOf(Head(s_new).code) # "")
    /\ postOk \/ CanFail(storage)
    /\ LET item     == Head(s_new)
           username == AuthorOf(item.code)
           post     == PostOf(item, IF media = "url" THEN Some("s") ELSE None)
           st1      == IF username # "" /\ userOk
                       THEN UpsertUser(storage, username, MinimalUserOf(item))
                       ELSE storage
           st2      == IF postOk THEN UpsertPost(st1, post) ELSE st1
           seen     == IF username # "" THEN s_usersSeen \cup {username}
                       ELSE s_usersSeen
           rest     == Tail(s_new)
           toEnrich == ToEnrich(st2, s_enrich, seen)
       IN  /\ storage' = st2
           /\ s_userCalls' = IF username # "" THEN s_userCalls \cup {username}
                             ELSE s_userCalls
           /\ s_postCalls' = s_postCalls \cup {item.code}
           /\ s_writesOk' = (s_writesOk /\ postOk)
           /\ s_obs' = [s_obs EXCEPT !.media = media, !.post = Some(post)]
           /\ IF rest # <<>>
              THEN /\ s_pc' = "posts"
                   /\ s_ret' = s_ret
                   /\ ScrapeLocals(s_download, s_enrich, rest, seen,
                                   s_stored + 1, {})
              ELSE IF toEnrich # {}
              THEN /\ s_pc' = "enrich"
                   /\ s_ret' = s_ret
                   /\ ScrapeLocals(s_download, s_enrich, rest, seen,
                                   s_stored + 1, toEnrich)
              ELSE ScrapeEnds("returned", s_stored + 1)
    /\ UNCHANGED <<s_feed, s_readOk, s_rerun>>

\* supabase_store.py 49-53: http.post raises inside _upsert (the remote
\* service is unreachable): the exception leaves scrape_hashtag.
ScrapeStorageRaises ==
    /\ s_pc = "posts"
    /\ storage.backend = "supabase"
    /\ ScrapeEnds("raised", 0)
    /\ s_writesOk' = FALSE
    /\ UNCHANGED <<s_feed, s_postCalls, s_userCalls, s_readOk, s_rerun, s_obs,
                   storage>>

\* scraper.py 80: store_image raises: the write of the file fails
\* (sqlite_store.py 191-193, OSError) or the upload cannot reach the service
\* (supabase_store.py 159-167); the exception leaves scrape_hashtag.
ScrapeStoreImageRaises ==
    /\ s_pc = "posts"
    /\ "url" \in MediaOutcomes(storage, s_download)
    /\ ScrapeEnds("raised", 0)
    /\ s_writesOk' = FALSE
    /\ s_obs' = [s_obs EXCEPT !.media = "raised", !.post = None]
    /\ UNCHANGED <<s_feed, s_postCalls, s_userCalls, s_readOk, s_rerun,
                   storage>>

\* The profiles fetch_user_profile may deliver for an author.
EnrichProfiles ==
    { UserRecord(ProfileKeys, Some("x"), Some("x"), fo, Some(7), Some(7), FALSE, FALSE) :
        fo \in Counts }

\* scraper.py 110-121: one iteration of the enrichment loop for a user whose
\* profile was fetched; the log line formats profile.get('followers', 0) with
\* ",", which raises TypeError when the value is None.
ScrapeEnrichFetched(uname, profile, userOk) ==
    /\ s_pc = "enrich"
    /\ uname \in s_toEnrich
    /\ userOk \/ CanFail(storage)
    /\ storage' = IF userOk THEN UpsertUser(storage, uname, profile) ELSE storage
    /\ s_userCalls' = s_userCalls \cup {uname}
    /\ IF profile.followers = None
       THEN ScrapeEnds("raised", 0)
       ELSE IF s_toEnrich \ {uname} = {}
            THEN ScrapeEnds("returned", s_stored)
            ELSE /\ s_pc' = "enrich"
                 /\ s_ret' = s_ret
                 /\ ScrapeLocals(s_download, s_enrich, s_new, s_usersSeen,
                                 s_stored, s_toEnrich \ {uname})
    /\ UNCHANGED <<s_feed, s_postCalls, s_writesOk, s_readOk, s_rerun, s_obs>>

\* scraper.py 110-121: fetch_user_profile returned None: logged and skipped.
ScrapeEnrichFailed(uname) ==
    /\ s_pc = "enrich"
    /\ uname \in s_toEnrich
    /\ IF s_toEnrich \ {uname} = {}
       THEN ScrapeEnds("returned", s_stored)
       ELSE /\ s_pc' = "enrich"
            /\ s_ret' = s_ret
            /\ ScrapeLocals(s_download, s_enrich, s_new, s_usersSeen,
                            s_stored, s_toEnrich \ {uname})
    /\ UNCHANGED <<s_feed, s_postCalls, s_userCalls, s_writesOk, s_readOk,
                   s_rerun, s_obs, storage>>

(***************************************************************************)
(*                    DAEMON CONTROLLER (daemon.py)                        *)
(*                                                                         *)
(* run_daemon sees the storage through get_post_count() alone, so the      *)
(* storage is here the count it reports.  d_pc names the statement the     *)
(* daemon is at; a call or a sleep in flight is a value of d_pc, so that   *)
(* the signal handler can run while it lasts.                              *)
(*   "start"          44   before the PID file is written                  *)
(*   "load"           47   load_cookies                                    *)
(*   "loop"           58   the test of `while running`                     *)
(*   "target_comments" 66  scrape_comments_batch(limit=500)                *)
(*   "target_sleep"   68   time.sleep(3600)                                *)
(*   "top"            75   the head of the top-tab for loop                *)
(*   "top_scrape"     82   scrape_hashtag(tab="top")                       *)
(*   "top_refresh"    93   refresh_cookies                                 *)
(*   "top_reload"     96   time.sleep(3600), then load_cookies             *)
(*   "top_sleep"      99   time.sleep(10..25)                              *)
(*   "after_top"     101   `if not running: break`                         *)
(*   "comments"      107   scrape_comments_batch(limit=300)                *)
(*   "recent_check"  112   the test before the recent-tab pass             *)
(*   "recent"        115   the head of the recent-tab for loop             *)
(*   "recent_scrape" 119   scrape_hashtag(tab="recent")                    *)
(*   "recent_sleep"  127   time.sleep(10..20)                              *)
(*   "cycle_end"     129   the count and the test at the end of the cycle  *)
(*   "pause"         135   time.sleep(300..600)                            *)
(*   "end"           139   run_daemon has returned                         *)
(***************************************************************************)

\* The hashtags argument.
Tags == <<"t1", "t2">>

\* daemon.py 114: the recent-tab pass samples at most 15 hashtags.
RecentSample == 15

Min(a, b) == IF a < b THEN a ELSE b

\* random.shuffle (daemon.py 71-72) and random.sample (daemon.py 114): the
\* sequences of k distinct elements of tags.
Orders_repeat(tags, k) == [1..k -> { tags[i] : i \in 1..Len(tags) }]
Orders(tags, k) ==
    { o \in [1..k -> { tags[i] : i \in 1..Len(tags) }] :
        \A i, j \in 1..k : o[i] = o[j] => i = j }

\* daemon.py 63, 78, 112, 132: the count has reached the target.
TargetReached_strict(count, target) == count > target
TargetReached(count, target) == count >= target

\* How a scrape_hashtag call ends for the daemon: it returns, or it raises an
\* exception whose message holds "login" or "401" ("auth"), or another one.
ScrapeOutcomes == {"ok", "auth", "other"}

\* What a scrape_hashtag call met: nothing ("fine"); a response of the
\* hashtag feed that is no success, HTTP 401 included ("http_error": api.py
\* 132-134 logs it, leaves the loop and returns the posts it has); a body of
\* the feed that is no JSON ("non_json": r.json() at api.py 136 raises
\* JSONDecodeError, whose message for a login page is "Expecting value: line
\* 1 column 1 (char 0)"); another exception whose message holds "login" or
\* "401" ("auth_exception"); any other exception ("other_exception").
CrawlEvents ==
    {"fine", "http_error", "non_json", "auth_exception", "other_exception"}

\* daemon.py 88-90: what the try statement around scrape_hashtag sees.
OutcomeOf(event) ==
    CASE event \in {"fine", "http_error"} -> "ok"
      [] event = "auth_exception" -> "auth"
      [] event \in {"non_json", "other_exception"} -> "other"

\* How refresh_cookies ends (cookies.py 40-75): it returns the cookies, the
\* extraction raises an exception, or it raises SystemExit (no sessionid,
\* unsupported platform).
RefreshOutcomes == {"ok", "exception", "exit"}

DaemonIdle ==
    /\ d_pc = "start"
    /\ d_exit = "none"
    /\ d_running = TRUE
    /\ d_pid = FALSE
    /\ d_closed = FALSE
    /\ d_cookies = "none"
    /\ d_count = 0
    /\ d_startCount = -1
    /\ d_todo = <<>>
    /\ d_scraped = FALSE
    /\ d_event = "none"
    /\ d_obs = [comments |-> <<>>, visited |-> <<>>, call |-> None]

\* The daemon moves to the statement pc; nothing else of it changes.
DaemonGoto(pc) ==
    /\ d_pc' = pc
    /\ UNCHANGED <<d_exit, d_running, d_pid, d_closed, d_cookies, d_count,
                   d_startCount, d_todo, d_scraped, d_event, d_obs>>

\* An exception or SystemExit leaves run_daemon at the statement it is at.
DaemonRaises ==
    /\ d_exit' = "raised"
    /\ UNCHANGED <<d_pc, d_running, d_pid, d_closed, d_cookies, d_count,
                   d_startCount, d_todo, d_scraped, d_event, d_obs>>

\* daemon.py 137-139: the PID file is removed, the storage closed, and
\* run_daemon returns.
DaemonCleanup ==
    /\ d_pc' = "end"
    /\ d_exit' = "graceful"
    /\ d_pid' = FALSE
    /\ d_closed' = TRUE
    /\ UNCHANGED <<d_running, d_cookies, d_count, d_startCount, d_todo,
                   d_scraped, d_event, d_obs>>

\* daemon.py 36-39: _stop, the handler of SIGTERM and SIGINT.
Stop ==
    /\ d_exit = "none"
    /\ d_running
    /\ d_running' = FALSE
    /\ UNCHANGED <<d_pc, d_exit, d_pid, d_closed, d_cookies, d_count,
                   d_startCount, d_todo, d_scraped, d_event, d_obs>>

\* daemon.py 44-45: the PID file is written.
DaemonStart ==
    /\ d_exit = "none"
    /\ d_pc = "start"
    /\ d_pc' = "load"
    /\ d_pid' = TRUE
    /\ UNCHANGED <<d_exit, d_running, d_closed, d_cookies, d_count,
                   d_startCount, d_todo, d_scraped, d_event, d_obs>>

\* daemon.py 47: load_cookies returns the cookies, or raises (cookies.py
\* 23-34: SystemExit when the file is missing or holds no sessionid).
DaemonLoad(ok) ==
    /\ d_exit = "none"
    /\ d_pc = "load"
    /\ IF ok
       THEN /\ d_pc' = "loop"
            /\ d_cookies' = "file"
            /\ UNCHANGED <<d_exit, d_running, d_pid, d_closed, d_count,
                           d_startCount, d_todo, d_scraped, d_event, d_obs>>
       ELSE DaemonRaises

\* daemon.py 58-72: the loop test; a cycle starts with the count; at the
\* target it enters the comment-only branch, under it the top-tab pass over
\* the shuffled hashtags.  With running false the loop is left (137-139).
DaemonCycleStart ==
    /\ d_exit = "none"
    /\ d_pc = "loop"
    /\ IF ~d_running
       THEN DaemonCleanup
       ELSE /\ d_startCount' = d_count
            /\ d_scraped' = FALSE
            /\ IF TargetReached(d_count, Target)
               THEN /\ d_pc' = "target_comments"
                    /\ d_todo' = <<>>
                    /\ d_obs' = [d_obs EXCEPT !.comments = <<500>>,
                                              !.visited = <<>>]
               ELSE /\ d_pc' = "top"
                    /\ d_todo' \in Orders(Tags, Len(Tags))
                    /\ d_obs' = [d_obs EXCEPT !.comments = <<>>,
                                              !.visited = <<>>]
            /\ UNCHANGED <<d_exit, d_running, d_pid, d_closed, d_cookies,
                           d_count, d_event>>

\* daemon.py 60, 78, 112, 129: get_post_count raises (sqlite_store.py 174 and
\* supabase_store.py 116 catch nothing); no handler encloses these calls.
DaemonPostCountRaises ==
    /\ d_exit = "none"
    /\ \/ d_pc = "loop" /\ d_running
       \/ d_pc = "top" /\ d_todo # <<>> /\ d_running
       \/ d_pc = "recent_check" /\ d_running
       \/ d_pc = "cycle_end"
    /\ DaemonRaises

\* daemon.py 66: scrape_comments_batch(limit=500) returns or raises; no
\* handler encloses the call.
DaemonTargetComments(ok) ==
    /\ d_exit = "none"
    /\ d_pc = "target_comments"
    /\ IF ok THEN DaemonGoto("target_sleep") ELSE DaemonRaises

\* daemon.py 68-69: the hour of sleep is over; continue.
DaemonTargetSleep ==
    /\ d_exit = "none"
    /\ d_pc = "target_sleep"
    /\ DaemonGoto("loop")

\* The top-tab loop of daemon.py 75-87 without its test of the running flag.
DaemonTopNext_deaf ==
    /\ d_exit = "none"
    /\ d_pc = "top"
    /\ IF d_todo = <<>> \/ TargetReached(d_count, Target)
       THEN DaemonGoto("after_top")
       ELSE /\ d_pc' = "top_scrape"
            /\ d_todo' = Tail(d_todo)
            /\ d_scraped' = TRUE
            /\ d_obs' = [d_obs EXCEPT
                   !.visited = Append(@, Head(d_todo)),
                   !.call = Some([tab |-> "top", max_pages |-> 20])]
            /\ UNCHANGED <<d_exit, d_running, d_pid, d_closed, d_cookies,
                           d_count, d_startCount, d_event>>

\* daemon.py 75-87: the top-tab loop yields the next hashtag; it breaks when
\* running is false or the count has reached the target, else scrape_hashtag
\* is called.
DaemonTopNext ==
    /\ d_exit = "none"
    /\ d_pc = "top"
    /\ IF d_todo = <<>> \/ ~d_running \/ TargetReached(d_count, Target)
       THEN DaemonGoto("after_top")
       ELSE /\ d_pc' = "top_scrape"
            /\ d_todo' = Tail(d_todo)
            /\ d_scraped' = TRUE
            /\ d_obs' = [d_obs EXCEPT
                   !.visited = Append(@, Head(d_todo)),
                   !.call = Some([tab |-> "top", max_pages |-> 20])]
            /\ UNCHANGED <<d_exit, d_running, d_pid, d_closed, d_cookies,
                           d_count, d_startCount, d_event>>

\* daemon.py 82-91: scrape_hashtag is over, the storage reporting count then
\* (upserts raise it, a flush of the batch-file backend lowers it); an
\* exception is logged, and one whose message holds "login" or "401" leads to
\* refresh_cookies.
DaemonTopScrapeEnds(event, count) ==
    /\ d_exit = "none"
    /\ d_pc = "top_scrape"
    /\ d_count' = count
    /\ d_event' = event
    /\ d_pc' = IF OutcomeOf(event) = "auth" THEN "top_refresh" ELSE "top_sleep"
    /\ UNCHANGED <<d_exit, d_running, d_pid, d_closed, d_cookies,
                   d_startCount, d_todo, d_scraped, d_obs>>

\* daemon.py 92-96: refresh_cookies returns, or raises an exception, which the
\* handler catches, or raises SystemExit, which `except Exception` does not
\* catch.
DaemonRefresh(outcome) ==
    /\ d_exit = "none"
    /\ d_pc = "top_refresh"
    /\ CASE outcome = "ok" ->
              /\ d_pc' = "top_sleep"
              /\ d_cookies' = "fresh"
              /\ UNCHANGED <<d_exit, d_running, d_pid, d_closed, d_count,
                             d_startCount, d_todo, d_scraped, d_event, d_obs>>
         [] outcome = "exception" -> DaemonGoto("top_reload")
         [] outcome = "exit" -> DaemonRaises

\* daemon.py 96-97: after the hour of sleep, load_cookies returns the cookies
\* of the file or raises; the call is inside the handler, outside any try.
DaemonReload(ok) ==
    /\ d_exit = "none"
    /\ d_pc = "top_reload"
    /\ IF ok
       THEN /\ d_pc' = "top_sleep"
            /\ d_cookies' = "file"
            /\ UNCHANGED <<d_exit, d_running, d_pid, d_closed, d_count,
                           d_startCount, d_todo, d_scraped, d_event, d_obs>>
       ELSE DaemonRaises

\* daemon.py 99: the sleep between two hashtags is over.
DaemonTopSleep ==
    /\ d_exit = "none"
    /\ d_pc = "top_sleep"
    /\ DaemonGoto("top")

\* daemon.py 101-105: with running false the loop is left (137-139), else the
\* comment pass starts.
DaemonAfterTop ==
    /\ d_exit = "none"
    /\ d_pc = "after_top"
    /\ IF ~d_running
       THEN DaemonCleanup
       ELSE /\ d_pc' = "comments"
            /\ d_obs' = [d_obs EXCEPT !.comments = Append(@, 300)]
            /\ UNCHANGED <<d_exit, d_running, d_pid, d_closed, d_cookies,
                           d_count, d_startCount, d_todo, d_scraped, d_event>>

\* daemon.py 106-109: scrape_comments_batch(limit=300) returns, or raises an
\* exception, which is logged.
DaemonComments(ok) ==
    /\ d_exit = "none"
    /\ d_pc = "comments"
    /\ DaemonGoto("recent_check")

\* The test of daemon.py 112 without its comparison with the target.
DaemonRecentCheck_always ==
    /\ d_exit = "none"
    /\ d_pc = "recent_check"
    /\ IF d_running
       THEN /\ d_pc' = "recent"
            /\ d_todo' \in Orders(Tags, Min(RecentSample, Len(Tags)))
            /\ d_obs' = [d_obs EXCEPT !.visited = <<>>]
            /\ UNCHANGED <<d_exit, d_running, d_pid, d_closed, d_cookies,
                           d_count, d_startCount, d_scraped, d_event>>
       ELSE DaemonGoto("cycle_end")

\* daemon.py 112-114: the recent-tab pass is entered when running is true and
\* the count is under the target; its hashtags are a sample of the shuffled
\* ones.
DaemonRecentCheck ==
    /\ d_exit = "none"
    /\ d_pc = "recent_check"
    /\ IF d_running /\ ~TargetReached(d_count, Target)
       THEN /\ d_pc' = "recent"
            /\ d_todo' \in Orders(Tags, Min(RecentSample, Len(Tags)))
            /\ d_obs' = [d_obs EXCEPT !.visited = <<>>]
            /\ UNCHANGED <<d_exit, d_running, d_pid, d_closed, d_cookies,
                           d_count, d_startCount, d_scraped, d_event>>
       ELSE DaemonGoto("cycle_end")

\* daemon.py 115-124: the recent-tab loop yields the next hashtag; it breaks
\* when running is false, else scrape_hashtag is called.
DaemonRecentNext ==
    /\ d_exit = "none"
    /\ d_pc = "recent"
    /\ IF d_todo = <<>> \/ ~d_running
       THEN /\ d_pc' = "cycle_end"
            /\ d_todo' = <<>>
            /\ UNCHANGED <<d_exit, d_running, d_pid, d_closed, d_cookies,
                           d_count, d_startCount, d_scraped, d_event, d_obs>>
       ELSE /\ d_pc' = "recent_scrape"
            /\ d_todo' = Tail(d_todo)
            /\ d_scraped' = TRUE
            /\ d_obs' = [d_obs EXCEPT
                   !.visited = Append(@, Head(d_todo)),
                   !.call = Some([tab |-> "recent", max_pages |-> 10])]
            /\ UNCHANGED <<d_exit, d_running, d_pid, d_closed, d_cookies,
                           d_count, d_startCount, d_event>>

\* daemon.py 118-126: scrape_hashtag is over; an exception is logged.
DaemonRecentScrapeEnds(event, count) ==
    /\ d_exit = "none"
    /\ d_pc = "recent_scrape"
    /\ OutcomeOf(event) \in ScrapeOutcomes
    /\ d_count' = count
    /\ d_event' = event
    /\ d_pc' = "recent_sleep"
    /\ UNCHANGED <<d_exit, d_running, d_pid, d_closed, d_cookies,
                   d_startCount, d_todo, d_scraped, d_obs>>

\* daemon.py 127: the sleep between two hashtags is over.
DaemonRecentSleep ==
    /\ d_exit = "none"
    /\ d_pc = "recent_sleep"
    /\ DaemonGoto("recent")

\* daemon.py 129-135: the cycle is done; it pauses when running is true and
\* the count is under the target.
DaemonCycleEnd ==
    /\ d_exit = "none"
    /\ d_pc = "cycle_end"
    /\ IF d_running /\ ~TargetReached(d_count, Target)
       THEN DaemonGoto("pause")
       ELSE DaemonGoto("loop")

\* daemon.py 135: the pause is over.
DaemonPause ==
    /\ d_exit = "none"
    /\ d_pc = "pause"
    /\ DaemonGoto("loop")

(***************************************************************************)
(*                          SPECIFICATIONS                                 *)
(***************************************************************************)

FetchIdle ==
    /\ f_pc = "idle"
    /\ f_maxPages = 0
    /\ f_page = 0
    /\ f_cursor = None
    /\ f_all = <<>>
    /\ f_seen = {}
    /\ f_exit = "none"
    /\ f_nreq = 0
    /\ f_okPages = <<>>

InitFetch ==
    FetchIdle /\ StorageIdle /\ ScrapeIdle /\ DaemonIdle /\ MoreIdle

NextFetch ==
    \/ \E mp \in 0..MaxPages : FetchCall(mp)
    \/ FetchTransportError
    \/ FetchRateLimited
    \/ FetchHttpError
    \/ FetchNonJson
    \/ \E medias \in Pages, more \in BOOLEAN, next \in Cursors :
          FetchOk(medias, more, next)

SpecFetch == InitFetch /\ [][NextFetch]_vars

\* ---- SpecUser: upsert_user calls on one backend instance ----
InitUser ==
    /\ FetchIdle
    /\ ScrapeIdle
    /\ DaemonIdle
    /\ MoreIdle
    /\ \E b \in Backends : storage = NewStorage(b)
    /\ st_call = NoCall
    /\ st_ok = TRUE

UpsertMinimalUser ==
    /\ \E u \in Usernames, user \in MinimalUsers : UpsertUserCall(u, user, TRUE)
    /\ UNCHANGED <<fetchVars, scrapeVars, daemonVars, moreVars>>

UpsertProfileUser ==
    /\ \E u \in Usernames, user \in ProfileUsers : UpsertUserCall(u, user, TRUE)
    /\ UNCHANGED <<fetchVars, scrapeVars, daemonVars, moreVars>>

UpsertUserFails ==
    /\ \E u \in Usernames, user \in MinimalUsers \cup ProfileUsers :
          UpsertUserCall(u, user, FALSE)
    /\ UNCHANGED <<fetchVars, scrapeVars, daemonVars, moreVars>>

NextUser == UpsertMinimalUser \/ UpsertProfileUser \/ UpsertUserFails

SpecUser == InitUser /\ [][NextUser]_vars

\* ---- SpecPost: upsert_post calls on one backend instance ----
\* The post dicts parse_media builds (api.py 63-84): views may be None.  The
\* caption and the media of a post are drawn together, as its content.
PostContents == { [caption |-> "c1", image_url |-> Some("i1")],
                  [caption |-> "c2", image_url |-> Some("i2")] }

PostInputs ==
    { PostRecord(code, "alice", content.caption, content.image_url, None,
                 likes, cc, views) :
        code \in Codes, content \in PostContents, likes \in {1, 2},
        cc \in {0, 1}, views \in {None, Some(3)} }

InitPost ==
    /\ FetchIdle
    /\ ScrapeIdle
    /\ DaemonIdle
    /\ MoreIdle
    /\ \E b \in Backends : storage = NewStorage(b)
    /\ st_call = NoCall
    /\ st_ok = TRUE

UpsertPostSucceeds ==
    /\ \E post \in PostInputs : UpsertPostCall(post, TRUE)
    /\ UNCHANGED <<fetchVars, scrapeVars, daemonVars, moreVars>>

UpsertPostFails ==
    /\ \E post \in PostInputs : UpsertPostCall(post, FALSE)
    /\ UNCHANGED <<fetchVars, scrapeVars, daemonVars, moreVars>>

NextPost == UpsertPostSucceeds \/ UpsertPostFails

SpecPost == InitPost /\ [][NextPost]_vars

\* ---- SpecNeed: posts and comments are stored on one backend, and --------
\* ---- get_posts_needing_comments is asked after any of the writes --------
NeedPosts ==
    { PostRecord(code, "alice", "c1", Some("i1"), None, likes, cc, None) :
        code \in Codes, likes \in {1, 2}, cc \in {0, 1} }

\* The backends that answer the query from their tables: json_store.py 65-67
\* answers [] whatever was written.
QueryBackends == {"sqlite", "supabase"}

InitNeed ==
    /\ FetchIdle
    /\ ScrapeIdle
    /\ DaemonIdle
    /\ MoreIdle
    /\ \E b \in QueryBackends : storage = NewStorage(b)
    /\ st_call = NoCall
    /\ st_ok = TRUE

NeedUpsertPost ==
    /\ \E post \in NeedPosts : UpsertPostCall(post, TRUE)
    /\ n_asked' = FALSE
    /\ UNCHANGED <<n_limit, n_readsOk, n_result, e_stores, e_calls, decoded, js,
                   fc>>
    /\ UNCHANGED <<fetchVars, scrapeVars, daemonVars>>

\* scraper.py 147-151: the comments written are those fetched for a post the
\* storage returned, so the post of a comment has a row.
NeedUpsertComment ==
    /\ \E code \in GetExistingCodes(storage), username \in Usernames \cup {""} :
          UpsertCommentCall(code, username)
    /\ n_asked' = FALSE
    /\ UNCHANGED <<n_limit, n_readsOk, n_result, e_stores, e_calls, decoded, js,
                   fc>>
    /\ UNCHANGED <<fetchVars, scrapeVars, daemonVars>>

NeedAsk ==
    /\ \E limit \in 1..MaxLimit, postsOk \in BOOLEAN, commentsOk \in BOOLEAN :
          PostsNeedingCommentsCall(limit, postsOk, commentsOk)
    /\ UNCHANGED <<fetchVars, storeVars, scrapeVars, daemonVars>>

NextNeed == NeedUpsertPost \/ NeedUpsertComment \/ NeedAsk

SpecNeed == InitNeed /\ [][NextNeed]_vars

(***************************************************************************)
(* The comment back-fill, scraper.py 126-158, called pass after pass with  *)
(* one limit (daemon.py 66, 107) on a storage that holds posts.  During a  *)
(* pass n_result is the rest of to_scrape: its head is the post whose      *)
(* fetch_comments call is in flight.                                       *)
(***************************************************************************)
InitBackfill ==
    /\ FetchIdle
    /\ ScrapeIdle
    /\ DaemonIdle
    /\ MoreIdle
    /\ \E b \in QueryBackends, pa \in NeedPosts, pb \in NeedPosts :
          /\ pa.code = "a"
          /\ pb.code = "b"
          /\ storage = UpsertPost(UpsertPost(NewStorage(b), pa), pb)
    /\ st_call = NoCall
    /\ st_ok = TRUE

\* scraper.py 136-142: the pass asks the storage for the posts to scrape.
BatchStart ==
    /\ ~n_asked
    /\ \E limit \in 1..MaxLimit, postsOk \in BOOLEAN, commentsOk \in BOOLEAN :
          /\ n_limit \in {0, limit}
          /\ PostsNeedingCommentsCall(limit, postsOk, commentsOk)
    /\ UNCHANGED <<fetchVars, storeVars, scrapeVars, daemonVars>>

\* scraper.py 144-154: fetch_comments for the next post returned no comment
\* (nothing is stored for the post) or comments, which are stored.
BatchFetch(found, username) ==
    /\ n_asked
    /\ n_result # <<>>
    /\ IF found
       THEN UpsertCommentCall(Head(n_result), username)
       ELSE /\ st_call' = [op |-> "fetch_comments", post_id |-> Head(n_result)]
            /\ st_ok' = TRUE
            /\ UNCHANGED storage
    /\ n_result' = Tail(n_result)
    /\ UNCHANGED <<n_asked, n_limit, n_readsOk, e_stores, e_calls, decoded,
                   js, fc>>
    /\ UNCHANGED <<fetchVars, scrapeVars, daemonVars>>

\* scraper.py 146: fetch_comments raises (api.py 185, 218); nothing in
\* scrape_comments_batch catches it and the pass is over.
BatchFetchRaises ==
    /\ n_asked
    /\ n_result # <<>>
    /\ st_call' = [op |-> "fetch_comments", post_id |-> Head(n_result)]
    /\ st_ok' = FALSE
    /\ n_result' = <<>>
    /\ n_asked' = FALSE
    /\ UNCHANGED <<storage, n_limit, n_readsOk, e_stores, e_calls, decoded,
                   js, fc>>
    /\ UNCHANGED <<fetchVars, scrapeVars, daemonVars>>

\* scraper.py 137-139, 157-158: the pass returns.
BatchReturns ==
    /\ n_asked
    /\ n_result = <<>>
    /\ n_asked' = FALSE
    /\ UNCHANGED <<n_limit, n_readsOk, n_result, e_stores, e_calls, decoded,
                   js, fc>>
    /\ UNCHANGED <<fetchVars, storeVars, scrapeVars, daemonVars>>

NextBackfill ==
    \/ BatchStart
    \/ \E found \in BOOLEAN, username \in Usernames \cup {""} :
          BatchFetch(found, username)
    \/ BatchFetchRaises
    \/ BatchReturns

\* The daemon calls pass after pass and every call in a pass returns or
\* raises.
SpecBackfill == InitBackfill /\ [][NextBackfill]_vars /\ WF_vars(NextBackfill)

\* The calls made of a JSONStorage, and the seconds passing between them.
JsonFrame == UNCHANGED <<n_asked, n_limit, n_readsOk, n_result, e_stores,
                         e_calls, decoded, fc, fetchVars, storeVars,
                         scrapeVars, daemonVars>>

JsonUpsertCall ==
    /\ ~js.closed
    /\ js.passed < MaxUpserts
    /\ js' = JsonUpsert(js)
    /\ JsonFrame

JsonCloseCall ==
    /\ ~js.closed
    /\ js' = JsonClose(js)
    /\ JsonFrame

\* Time passes between two calls: datetime.now() falls in the next second.
JsonTick ==
    /\ ~js.closed
    /\ js.clock < MaxClock
    /\ js' = [js EXCEPT !.clock = @ + 1]
    /\ JsonFrame

NextJson == JsonUpsertCall \/ JsonCloseCall \/ JsonTick

SpecJson == InitFetch /\ [][NextJson]_vars

\* ---- SpecEquiv: the same successful upsert_post, upsert_user and --------
\* ---- upsert_comment calls are made on an instance of every backend ------
InitEquiv == InitFetch

EquivUpsertPost ==
    /\ e_calls < MaxCalls
    /\ \E post \in NeedPosts :
          e_stores' = [b \in Backends |-> UpsertPost(e_stores[b], post)]
    /\ e_calls' = e_calls + 1
    /\ UNCHANGED <<n_asked, n_limit, n_readsOk, n_result, decoded, js, fc>>
    /\ UNCHANGED <<fetchVars, storeVars, scrapeVars, daemonVars>>

\* The records written are the minimal record and a profile with a follower
\* count (scraper.py 86-91, 113-116).
EquivUpsertUser ==
    /\ e_calls < MaxCalls
    /\ \E u \in Usernames, user \in
            { CommentAuthorRecord,
              UserRecord(ProfileKeys, Some("x"), Some(""), Some(7), Some(7),
                         Some(7), FALSE, FALSE) } :
          e_stores' = [b \in Backends |-> UpsertUser(e_stores[b], u, user)]
    /\ e_calls' = e_calls + 1
    /\ UNCHANGED <<n_asked, n_limit, n_readsOk, n_result, decoded, js, fc>>
    /\ UNCHANGED <<fetchVars, storeVars, scrapeVars, daemonVars>>

EquivUpsertComment ==
    /\ e_calls < MaxCalls
    /\ \E code \in Codes, username \in Usernames \cup {""} :
          e_stores' =
              [b \in Backends |-> UpsertComment(e_stores[b], code, username)]
    /\ e_calls' = e_calls + 1
    /\ UNCHANGED <<n_asked, n_limit, n_readsOk, n_result, decoded, js, fc>>
    /\ UNCHANGED <<fetchVars, storeVars, scrapeVars, daemonVars>>

NextEquiv == EquivUpsertPost \/ EquivUpsertUser \/ EquivUpsertComment

SpecEquiv == InitEquiv /\ [][NextEquiv]_vars

\* ---- SpecCode: shortcode_to_media_pk is called for pairs of codes ----
NextCode ==
    /\ \E a \in SampleCodes, b \in SampleCodes : DecodePair(a, b)
    /\ UNCHANGED <<n_asked, n_limit, n_readsOk, n_result, e_stores, e_calls,
                   js, fc>>
    /\ UNCHANGED <<fetchVars, storeVars, scrapeVars, daemonVars>>

SpecCode == InitFetch /\ [][NextCode]_vars

\* ---- SpecComments: fetch_comments calls ----
NextComments ==
    /\ \/ \E post_code \in {<<"B", "_">>, <<"B", "!">>}, mp \in 0..MaxPages :
             CommentsCall(post_code, mp)
       \/ \E exit \in {"transport", "http", "non_json"} : CommentsBreak(exit)
       \/ CommentsRateLimited
       \/ CommentsBodyRaises
       \/ \E comments \in CommentPages, more \in BOOLEAN, next \in Cursors :
             CommentsOk(comments, more, next)
    /\ UNCHANGED <<n_asked, n_limit, n_readsOk, n_result, e_stores, e_calls,
                   decoded, js>>
    /\ UNCHANGED <<fetchVars, storeVars, scrapeVars, daemonVars>>

SpecComments == InitFetch /\ [][NextComments]_vars

(***************************************************************************)
(* The two paginated fetches, api.py 109-162 and 187-241, each called any  *)
(* number of times by a process that uses one of them.  Every request is   *)
(* made with timeout=15, so a request in flight is answered or fails: the  *)
(* steps that end a request are taken when they stay possible.             *)
(***************************************************************************)
FetchResponds ==
    \/ FetchTransportError
    \/ FetchRateLimited
    \/ FetchHttpError
    \/ FetchNonJson
    \/ \E medias \in Pages, more \in BOOLEAN, next \in Cursors :
          FetchOk(medias, more, next)

CommentsResponds ==
    /\ \/ \E exit \in {"transport", "http", "non_json"} : CommentsBreak(exit)
       \/ CommentsRateLimited
       \/ CommentsBodyRaises
       \/ \E comments \in CommentPages, more \in BOOLEAN, next \in Cursors :
             CommentsOk(comments, more, next)
    /\ UNCHANGED <<n_asked, n_limit, n_readsOk, n_result, e_stores, e_calls,
                   decoded, js>>
    /\ UNCHANGED <<fetchVars, storeVars, scrapeVars, daemonVars>>

NextPaging ==
    \/ fc.pc = "idle" /\ \E mp \in 0..MaxPages : FetchCall(mp)
    \/ fc.pc = "idle" /\ FetchResponds
    \/ /\ f_pc = "idle"
       /\ \E post_code \in {<<"B", "_">>, <<"B", "!">>}, mp \in 0..MaxPages :
             CommentsCall(post_code, mp)
       /\ UNCHANGED <<n_asked, n_limit, n_readsOk, n_result, e_stores,
                      e_calls, decoded, js>>
       /\ UNCHANGED <<fetchVars, storeVars, scrapeVars, daemonVars>>
    \/ f_pc = "idle" /\ CommentsResponds

SpecPaging ==
    /\ InitFetch
    /\ [][NextPaging]_vars
    /\ WF_vars(FetchResponds)
    /\ WF_vars(CommentsResponds)

\* ---- SpecScrape: scrape_hashtag calls for one hashtag on one backend ----
InitScrape ==
    /\ FetchIdle
    /\ \E b \in Backends : storage = NewStorage(b)
    /\ st_call = NoCall
    /\ st_ok = TRUE
    /\ ScrapeIdle
    /\ DaemonIdle
    /\ MoreIdle

NextScrape ==
    \/ /\ \E feed \in Feeds, download \in BOOLEAN, enrich \in BOOLEAN,
             readOk \in BOOLEAN :
             ScrapeCall(feed, download, enrich, readOk)
       /\ UNCHANGED <<fetchVars, storeObs, daemonVars, moreVars>>
    \/ (\E feed \in Feeds : ScrapeFetchRaises(feed))
          /\ UNCHANGED <<fetchVars, storeObs, daemonVars, moreVars>>
    \/ /\ \E media \in {"off", "no_bytes", "absent", "url"},
             userOk \in BOOLEAN, postOk \in BOOLEAN :
             ScrapePost(media, userOk, postOk)
       /\ UNCHANGED <<fetchVars, storeObs, daemonVars, moreVars>>
    \/ ScrapeStorageRaises /\ UNCHANGED <<fetchVars, storeObs, daemonVars, moreVars>>
    \/ ScrapeStoreImageRaises
          /\ UNCHANGED <<fetchVars, storeObs, daemonVars, moreVars>>
    \/ /\ \E uname \in Usernames, profile \in EnrichProfiles, userOk \in BOOLEAN :
             ScrapeEnrichFetched(uname, profile, userOk)
       /\ UNCHANGED <<fetchVars, storeObs, daemonVars, moreVars>>
    \/ (\E uname \in Usernames : ScrapeEnrichFailed(uname))
          /\ UNCHANGED <<fetchVars, storeObs, daemonVars, moreVars>>

SpecScrape == InitScrape /\ [][NextScrape]_vars

\* ---- SpecDaemon: one run of run_daemon on a storage that may hold posts ----
otherVars == <<fetchVars, storeVars, scrapeVars, moreVars>>

InitDaemon ==
    /\ FetchIdle
    /\ StorageIdle
    /\ ScrapeIdle
    /\ MoreIdle
    /\ d_pc = "start"
    /\ d_exit = "none"
    /\ d_running = TRUE
    /\ d_pid = FALSE
    /\ d_closed = FALSE
    /\ d_cookies = "none"
    /\ d_count \in 0..MaxCount
    /\ d_startCount = -1
    /\ d_todo = <<>>
    /\ d_scraped = FALSE
    /\ d_event = "none"
    /\ d_obs = [comments |-> <<>>, visited |-> <<>>, call |-> None]

NextDaemon ==
    \/ Stop /\ UNCHANGED otherVars
    \/ DaemonStart /\ UNCHANGED otherVars
    \/ (\E ok \in BOOLEAN : DaemonLoad(ok)) /\ UNCHANGED otherVars
    \/ DaemonCycleStart /\ UNCHANGED otherVars
    \/ DaemonPostCountRaises /\ UNCHANGED otherVars
    \/ (\E ok \in BOOLEAN : DaemonTargetComments(ok)) /\ UNCHANGED otherVars
    \/ DaemonTargetSleep /\ UNCHANGED otherVars
    \/ DaemonTopNext /\ UNCHANGED otherVars
    \/ (\E event \in CrawlEvents, count \in 0..MaxCount :
          DaemonTopScrapeEnds(event, count)) /\ UNCHANGED otherVars
    \/ (\E outcome \in RefreshOutcomes : DaemonRefresh(outcome))
          /\ UNCHANGED otherVars
    \/ (\E ok \in BOOLEAN : DaemonReload(ok)) /\ UNCHANGED otherVars
    \/ DaemonTopSleep /\ UNCHANGED otherVars
    \/ DaemonAfterTop /\ UNCHANGED otherVars
    \/ (\E ok \in BOOLEAN : DaemonComments(ok)) /\ UNCHANGED otherVars
    \/ DaemonRecentCheck /\ UNCHANGED otherVars
    \/ DaemonRecentNext /\ UNCHANGED otherVars
    \/ (\E event \in CrawlEvents, count \in 0..MaxCount :
          DaemonRecentScrapeEnds(event, count)) /\ UNCHANGED otherVars
    \/ DaemonRecentSleep /\ UNCHANGED otherVars
    \/ DaemonCycleEnd /\ UNCHANGED otherVars
    \/ DaemonPause /\ UNCHANGED otherVars

SpecDaemon == InitDaemon /\ [][NextDaemon]_vars

(***************************************************************************)
(* Claims about scrape_hashtag.                                            *)
(***************************************************************************)

\* C1: dedup idempotence: a scrape_hashtag call that follows a completed call
\* on the same storage and fetches the same feed returns 0 and makes no
\* upsert_post call.
C1_DedupIdempotence ==
    (s_pc = "returned" /\ s_rerun # "no") => (s_ret = 0 /\ s_postCalls = {})

(***************************************************************************)
(* Claims about run_daemon.                                                *)
(***************************************************************************)

\* C2: target-threshold transition: in a cycle that started with a count at
\* or over the target, the daemon is in the comment-only pass, in the sleep
\* that follows it or back at the loop test (or it has ended), and it has
\* made no scrape_hashtag call in that cycle.
C2_TargetThreshold ==
    (d_startCount >= Target) =>
        /\ ~d_scraped
        /\ d_pc \in {"target_comments", "target_sleep", "loop", "end"}

C2_Witness ==
    /\ d_pc = "target_sleep"
    /\ d_startCount >= Target
    /\ d_exit = "none"

\* C3: per-hashtag failure isolation: no failure that crawling one hashtag
\* produces, a failed credential refresh included, terminates the daemon:
\* run_daemon is never left by an exception raised while it refreshes or
\* reloads the credentials after a failed scrape_hashtag.
C3_HashtagFailureIsolated ==
    ~(d_exit = "raised" /\ d_pc \in {"top_refresh", "top_reload"})

\* C4: graceful stop: a daemon that received the stop signal after it entered
\* its loop and is no longer running has returned from run_daemon, with the
\* storage closed and the PID file removed.
C4_GracefulStop ==
    (~d_running /\ d_exit # "none" /\ d_pc \notin {"start", "load"}) =>
        (d_exit = "graceful" /\ d_closed /\ ~d_pid)

(***************************************************************************)
(* Claims about fetch_hashtag_posts.                                       *)
(***************************************************************************)

\* C5: a 429 response does not consume a page-count slot: a call that leaves
\* the loop because max_pages is reached has then fetched max_pages pages
\* with success, however many 429 responses it received.
C5_RateLimitKeepsSlot ==
    (f_pc = "done" /\ f_exit = "exhausted") => Len(f_okPages) = f_maxPages

\* C6: the successful page whose more_available is false is the last request
\* of the call (the call is over and no request followed it), and a call
\* never issues more than max_pages requests.
C6_PaginationTermination ==
    /\ \A i \in 1..Len(f_okPages) :
          ~f_okPages[i].more => (f_pc = "done" /\ f_nreq = f_okPages[i].req)
    /\ f_nreq <= f_maxPages

\* more_available = false on page 2 of a call with max_pages = 3: two requests.
C6_Witness ==
    /\ f_pc = "done"
    /\ f_maxPages = 3
    /\ Len(f_okPages) = 2
    /\ ~f_okPages[2].more
    /\ f_nreq = 2

\* The codes of the pages in `pages`, in order of arrival.
RECURSIVE CodesOf(_)
CodesOf(pages) ==
    IF pages = <<>> THEN <<>>
    ELSE Head(pages).medias \o CodesOf(Tail(pages))

\* The first occurrence of every code of s, entries without a code left out.
RECURSIVE FirstOccurrences(_, _)
FirstOccurrences(s, i) ==
    IF i > Len(s) THEN <<>>
    ELSE IF s[i] # "" /\ \A j \in 1..(i - 1) : s[j] # s[i]
         THEN <<s[i]>> \o FirstOccurrences(s, i + 1)
         ELSE FirstOccurrences(s, i + 1)

\* C7: a call that ends on a transport failure or on a non-success, non-429
\* status returns (it does not raise) and returns exactly the posts of the
\* pages fetched with success before the failure.
C7_PartialResult ==
    f_exit \in {"transport", "http"} =>
        /\ f_pc = "done"
        /\ f_all = FirstOccurrences(CodesOf(f_okPages), 1)

\* A transport failure after a page that delivered posts, and a non-empty result.
C7_Witness ==
    /\ f_pc = "done"
    /\ f_exit = "transport"
    /\ Len(f_okPages) >= 1
    /\ f_all # <<>>

(***************************************************************************)
(* Claims about upsert_user.                                               *)
(***************************************************************************)

\* A value that is neither null nor empty: a text column is unknown when it
\* is NULL or "", a counter when it is NULL (0 is a known count).
TextColumns == {"full_name", "bio"}
CountColumns == {"followers", "following", "post_count"}
Known(record, col) ==
    IF col \in TextColumns
    THEN record[col] # None /\ record[col] # Some("")
    ELSE record[col] # None

\* The last call was upsert_user for username u.
IsUpsertUser(call, u) == call.op = "upsert_user" /\ call.username = u

\* C8: a minimal upsert (username, full_name, is_verified only) of a username
\* whose stored followers, following or bio is known leaves that field known:
\* it is never changed to null or empty.
C8_EnrichmentMonotone ==
    [][\A u \in Usernames :
         (/\ IsUpsertUser(st_call', u)
          /\ st_call'.arg.keys = MinimalKeys
          /\ storage.users[u] # None)
         => /\ storage'.users[u] # None
            /\ \A col \in {"followers", "following", "bio"} :
                 Known(storage.users[u][1], col)
                    => Known(storage'.users[u][1], col)]_vars

\* A minimal upsert has succeeded on a row whose followers, following and bio
\* are known.
C8_Witness ==
    \E u \in Usernames :
        /\ IsUpsertUser(st_call, u)
        /\ st_call.arg.keys = MinimalKeys
        /\ st_ok
        /\ storage.users[u] # None
        /\ \A col \in {"followers", "following", "bio"} :
             Known(storage.users[u][1], col)

\* C9: a successful upsert_user of an existing username replaces the known
\* stored value of a field other than the verification flag only if the
\* incoming record has a value for it that is neither null nor empty (an
\* incoming "" leaves the stored value as it is), and sets the verification
\* flag to the incoming one.
C9_UserMergePolicy ==
    [][\A u \in Usernames :
         (/\ IsUpsertUser(st_call', u)
          /\ st_ok'
          /\ storage.users[u] # None
          /\ storage'.users[u] # None)
         => LET old == storage.users[u][1]
                new == storage'.users[u][1]
                in  == st_call'.arg
            IN  /\ \A col \in TextColumns \cup CountColumns :
                      (Known(old, col) /\ new[col] # old[col])
                         => (col \in in.keys /\ Known(in, col))
                /\ new.is_private # old.is_private => "is_private" \in in.keys
                /\ new.is_verified = Get(in, "is_verified", FALSE)]_vars

(***************************************************************************)
(* Claims about upsert_post.                                               *)
(***************************************************************************)

\* C10: a successful upsert_post of a code that is already stored sets the
\* stored likes, comments_count and views to the incoming ones and leaves the
\* caption, the media and every other column of the row as first inserted.
C10_PostMerge ==
    [][\A c \in Codes :
         (/\ st_call'.op = "upsert_post"
          /\ st_call'.arg.code = c
          /\ st_ok'
          /\ storage.posts[c] # None)
         => /\ storage'.posts[c] # None
            /\ LET old == storage.posts[c][1]
                   new == storage'.posts[c][1]
                   in  == st_call'.arg
               IN  /\ new.likes = in.likes
                   /\ new.comments_count = in.comments_count
                   /\ new.views = in.views
                   /\ new.caption = old.caption
                   /\ new.image_url = old.image_url
                   /\ new.storage_url = old.storage_url
                   /\ new.username = old.username]_vars

(***************************************************************************)
(* C11: get_posts_needing_comments(limit) returns at most `limit` posts,   *)
(* each with comments_count > 0 and without a stored comment, in order of  *)
(* falling likes: the answer is the first `limit` of the posts that await  *)
(* their comments, whenever the backend could be read.                    *)
(***************************************************************************)
AwaitingComments(st) == PostsWithComments(st) \ st.comment_posts

C11_PostsNeedingComments ==
    (n_asked /\ n_readsOk) =>
        /\ Len(n_result) <= n_limit
        /\ \A i \in 1..Len(n_result) : n_result[i] \in AwaitingComments(storage)
        /\ n_result \in TopByLikes(storage, AwaitingComments(storage), n_limit)

(***************************************************************************)
(* C12: after the same sequence of upsert_post, upsert_user and            *)
(* upsert_comment calls, the three backends answer get_existing_codes,     *)
(* get_post_count and get_enriched_users alike.                            *)
(***************************************************************************)
C12_BackendEquivalence ==
    \A b1, b2 \in Backends :
        /\ GetExistingCodes(e_stores[b1]) = GetExistingCodes(e_stores[b2])
        /\ GetPostCount(e_stores[b1]) = GetPostCount(e_stores[b2])
        /\ GetEnrichedUsers(e_stores[b1]) = GetEnrichedUsers(e_stores[b2])

(***************************************************************************)
(* C13: get_post_count() is the number of distinct post codes upserted so  *)
(* far, the size of get_existing_codes(), after any sequence of            *)
(* upsert_post calls and buffer flushes.                                   *)
(***************************************************************************)
C13_PostCountIsDistinctCodes ==
    GetPostCount(storage) = Cardinality(GetExistingCodes(storage))

(***************************************************************************)
(* C14: storage-write failure isolation: in the loop of scrape_hashtag     *)
(* over the new posts, whatever becomes of the writes of one post, the     *)
(* post is passed to upsert_post and the loop goes on to the next post.    *)
(***************************************************************************)
C14_WriteFailureIsolated ==
    [][ s_pc = "posts" =>
          /\ Head(s_new).code \in s_postCalls'
          /\ Len(s_new) > 1 => (s_pc' = "posts" /\ s_new' = Tail(s_new)) ]_vars

(***************************************************************************)
(* Claims about the failure recovery of run_daemon.                        *)
(***************************************************************************)

\* A step in which a scrape_hashtag call of the daemon ends.
ScrapeEndsStep == d_pc \in {"top_scrape", "recent_scrape"} /\ d_pc' # d_pc

\* C15: a scrape_hashtag call of the top-tab pass or of the recent-tab pass
\* that ends with an exception whose message holds "login" or "401" is
\* followed by a credential refresh attempt, before the next hashtag.
C15_AuthFailureRefreshes ==
    [][ (ScrapeEndsStep /\ d_event' = "auth_exception")
            => d_pc' = "top_refresh" ]_vars

\* C16: a credential refresh attempt that fails, for whatever reason, is
\* followed by the hour of sleep and the reload of the cookie file, and the
\* reload by the sleep before the next hashtag: run_daemon is not left.
C16_FailedRefreshContinues ==
    [][ /\ d_pc = "top_refresh" =>
              (d_exit' = "none" /\
               d_pc' \in {"top_refresh", "top_sleep", "top_reload"})
        /\ d_pc = "top_reload" =>
              (d_exit' = "none" /\ d_pc' \in {"top_reload", "top_sleep"}) ]_vars

\* C17: a scrape_hashtag call in which the Feed Client met an expired
\* session (a response of the hashtag feed that is no success, or a body
\* that is no JSON) is followed by a credential refresh attempt.
C17_SessionExpiryRefreshes ==
    [][ (ScrapeEndsStep /\ d_event' \in {"http_error", "non_json"})
            => d_pc' = "top_refresh" ]_vars

\* C18: run_daemon is not left by an exception raised while it back-fills
\* comments, neither in the comment pass of a crawling cycle nor in the
\* comment-only pass at the target.
C18_CommentFailureIsolated ==
    d_exit = "raised" => d_pc \notin {"comments", "target_comments"}

(***************************************************************************)
(* Claims about shortcode_to_media_pk.                                     *)
(***************************************************************************)

\* Both codes were decoded, neither call raised, and the codes differ.
TwoCodesDecoded ==
    decoded.pkA # None /\ decoded.pkB # None /\ decoded.a # decoded.b

LeadingA(code) == code # <<>> /\ code[1] = "A"

\* C19: shortcode decoding is deterministic and injective: the same code has
\* the same identifier; two different codes of the same length, or two
\* different codes neither of which starts with 'A', have different
\* identifiers; a code of one character has its alphabet index.
C19_DecodingInjective ==
    /\ decoded.a = decoded.b => decoded.pkA = decoded.pkB
    /\ (TwoCodesDecoded /\
        (Len(decoded.a) = Len(decoded.b) \/
         (~LeadingA(decoded.a) /\ ~LeadingA(decoded.b))))
           => decoded.pkA # decoded.pkB
    /\ Len(decoded.a) = 1 =>
           decoded.pkA = Index(SHORTCODE_ALPHABET, decoded.a[1])

\* Two codes of two characters, one with a leading 'A': 1 and 64.
C19_Witness ==
    /\ decoded.a = <<"A", "B">>
    /\ decoded.b = <<"B", "A">>
    /\ decoded.pkA = Some(1)
    /\ decoded.pkB = Some(64)

\* C19 as stated: two different codes of any lengths, codes with a leading
\* 'A' included, never have the same identifier.
C19_AnyLengths ==
    TwoCodesDecoded => decoded.pkA # decoded.pkB

(***************************************************************************)
(* Claims about fetch_comments.                                            *)
(***************************************************************************)

\* The comments of the pages served with success, in order.
RECURSIVE CommentsOf(_)
CommentsOf(pages) ==
    IF pages = <<>> THEN <<>>
    ELSE Head(pages).comments \o CommentsOf(Tail(pages))

C21_NonJsonIsSentinel ==
    f_exit = "nonjson" =>
        /\ f_pc = "done"
        /\ f_all = FirstOccurrences(CodesOf(f_okPages), 1)


\* A step in which fetch_hashtag_posts receives a 429 response: a request is
\* made, `page` advances and no page is added to the pages served.
RateLimitedStep ==
    /\ f_pc = "loop"
    /\ f_nreq' = f_nreq + 1
    /\ f_page' = f_page + 1
    /\ f_okPages' = f_okPages

\* C22: every 429 response is retried: after it the call is still in its
\* loop, about to repeat the request with the same cursor, on whatever page
\* slot the response arrived.
C22_RateLimitRetried ==
    [][ RateLimitedStep => (f_pc' = "loop" /\ f_cursor' = f_cursor) ]_vars

(***************************************************************************)
(* Further claims about scrape_hashtag.                                    *)
(***************************************************************************)

\* A step of the loop over the new posts in which the media of the post is
\* not stored: the download fails, or store_image returns None or raises.
MediaFailsStep ==
    /\ s_pc = "posts"
    /\ s_obs' # s_obs
    /\ s_obs'.media \in {"no_bytes", "absent", "raised"}

C24_ReturnsStoredCount ==
    s_pc = "returned" =>
        s_ret = Cardinality(GetExistingCodes(storage) \ s_obs.before)

(***************************************************************************)
(* Claims about scrape_comments_batch.                                     *)
(***************************************************************************)

\* C25: scrape_comments_batch calls fetch_comments for the posts that
\* get_posts_needing_comments returned, one after the other (scraper.py 136,
\* 144-146): every post it returned has comments_count > 0 and no stored
\* comment.
C25_CommentsFetchedOnce ==
    n_asked =>
        \A i \in 1..Len(n_result) :
            /\ n_result[i] \in PostsWithComments(storage)
            /\ n_result[i] \notin storage.comment_posts



TopPassPcs == {"top", "top_scrape", "top_refresh", "top_reload", "top_sleep",
               "after_top"}

RecentPassPcs == {"recent", "recent_scrape", "recent_sleep"}

Distinct(seq) == \A i, j \in 1..Len(seq) : seq[i] = seq[j] => i = j

\* C27: the phases of a crawling cycle.  During the top-tab pass no comment
\* pass of the cycle has started; from the comment pass to the end of the
\* cycle exactly one has, with limit 300, so it lies after the top-tab pass
\* and before every recent-tab scrape.  The recent-tab pass is entered only
\* with the count under the target; the hashtags it crawls are distinct
\* configured hashtags, at most min(15, number of hashtags) of them, each
\* crawled with tab "recent" and max_pages 10.
C27_PhaseOrdering ==
    /\ [](d_exit = "none" =>
            /\ d_pc \in TopPassPcs => d_obs.comments = <<>>
            /\ d_pc \in {"comments", "recent_check", "cycle_end"}
                        \cup RecentPassPcs => d_obs.comments = <<300>>
            /\ d_pc \in RecentPassPcs =>
                  /\ Distinct(d_obs.visited \o d_todo)
                  /\ SeqToSet(d_obs.visited \o d_todo) \subseteq SeqToSet(Tags)
                  /\ Len(d_obs.visited \o d_todo) <= 15
                  /\ Len(d_obs.visited \o d_todo) <= Len(Tags)
            /\ d_pc = "recent_scrape" =>
                  d_obs.call = Some([tab |-> "recent", max_pages |-> 10]))
    /\ [][ (d_pc = "recent_check" /\ d_pc' = "recent") =>
               (d_running /\ d_count < Target) ]_vars

\* The recent-tab pass of a cycle is crawling its second hashtag.
C27_Witness ==
    /\ d_exit = "none"
    /\ d_running
    /\ d_pc = "recent_scrape"
    /\ Len(d_obs.visited) = 2
    /\ d_obs.comments = <<300>>


\* C28: the target is checked before every hashtag: a step that starts a
\* scrape_hashtag call, of the top-tab pass or of the recent-tab pass, is
\* taken with the stored count under the target.
C28_TargetCheckedPerHashtag ==
    [][ (d_pc' \in {"top_scrape", "recent_scrape"} /\ d_pc' # d_pc) =>
            d_count < Target ]_vars


\* C29: no hashtag is starved.  The hashtags crawled and the hashtags still to
\* crawl of a top-tab pass are together a permutation of the configured
\* hashtags, so a pass that runs to the end of its loop (not cut short by the
\* stop signal or the target check) has called scrape_hashtag exactly once for
\* each configured hashtag; this holds in every cycle, the configured list
\* being the one the daemon was started with.
C29_NoHashtagStarved ==
    (d_exit = "none" /\ d_pc \in TopPassPcs) =>
        /\ Len(d_obs.visited \o d_todo) = Len(Tags)
        /\ Distinct(d_obs.visited \o d_todo)
        /\ SeqToSet(d_obs.visited \o d_todo) = SeqToSet(Tags)
        /\ (d_pc = "after_top" /\ d_todo = <<>>) =>
              \A i \in 1..Len(Tags) :
                  Cardinality({ j \in 1..Len(d_obs.visited) :
                                    d_obs.visited[j] = Tags[i] }) = 1

\* The top-tab loop of a second or later cycle ended after its last hashtag.
C29_Witness ==
    /\ d_exit = "none"
    /\ d_pc = "after_top"
    /\ d_todo = <<>>
    /\ Len(d_obs.visited) = Len(Tags)
    /\ d_startCount > 0


\* C30: already-known posts are discarded.  The posts scrape_hashtag works on
\* and the codes it passes to upsert_post are outside the snapshot of
\* existing codes it took on entry (the user upserts are made for the same
\* posts), and no step of the call changes the stored record of a post of
\* the snapshot.
C30_KnownPostsDiscarded ==
    /\ [](/\ s_postCalls \cap s_obs.snapshot = {}
          /\ \A i \in 1..Len(s_new) : s_new[i].code \notin s_obs.snapshot)
    /\ [][ \A c \in s_obs'.snapshot :
               storage'.posts[c] = storage.posts[c] ]_vars

\* A call whose feed held a post of the snapshot and a new one has stored
\* the new one.
C30_Witness ==
    /\ s_pc = "returned"
    /\ s_postCalls # {}
    /\ \E i \in 1..Len(s_feed) : s_feed[i].code \in s_obs.snapshot


KnownCounter(st, u) ==
    /\ st.users[u] # None
    /\ \/ st.users[u][1].followers # None
       \/ st.users[u][1].following # None
       \/ st.users[u][1].post_count # None

\* C31: get_enriched_users() returns exactly the usernames whose stored record
\* has a known counter among followers, following and post_count, so the
\* enrichment loop of scrape_hashtag never holds such a user.
C31_EnrichedUsers ==
    /\ GetEnrichedUsers(storage) = { u \in Usernames : KnownCounter(storage, u) }
    /\ s_pc = "enrich" => \A u \in s_toEnrich : ~KnownCounter(storage, u)


\* C32: bounded pagination.  Whatever the server answers, a call of
\* fetch_hashtag_posts or of fetch_comments has issued at most max_pages
\* requests, every step of its loop is one request, and the call ends
\* (it returns or raises).
C32_BoundedPagination ==
    /\ [](f_nreq <= f_maxPages /\ fc.nreq <= fc.maxPages)
    /\ [][ /\ (f_pc = "loop" /\ f_pc' = "loop") => f_nreq' = f_nreq + 1
           /\ (fc.pc = "loop" /\ fc'.pc = "loop") => fc'.nreq = fc.nreq + 1
         ]_vars
    /\ (f_pc = "loop") ~> (f_pc \in {"done", "raised"})
    /\ (fc.pc = "loop") ~> (fc.pc \in {"done", "raised"})

\* A call of fetch_hashtag_posts ended after max_pages requests that were
\* all answered with 429.
C32_Witness ==
    /\ f_pc = "done"
    /\ f_maxPages = MaxPages
    /\ f_nreq = f_maxPages
    /\ f_okPages = <<>>
    /\ f_exit = "exhausted"


\* C33: the comment back-fill makes progress for every candidate.  In a run
\* of passes whose storage reads succeed and whose fetch_comments calls
\* return, every stored post with comments_count > 0 and no stored comment
\* is eventually the post fetch_comments is called for.
C33_BackfillProgress ==
    [](n_readsOk /\ st_ok) =>
        \A c \in Codes :
            (c \in AwaitingComments(storage)) ~>
                (n_asked /\ n_result # <<>> /\ Head(n_result) = c)


\* C34: the batch-file backend loses no record.  After close() every record
\* passed to an upsert since construction is in a file the backend wrote,
\* and no buffer holds 100 records or more after an upsert returned.
C34_NoRecordLost ==
    /\ js.closed =>
          \A r \in 1..js.passed : \E t \in DOMAIN js.files : r \in js.files[t]
    /\ Cardinality(js.buf) < 100


\* C35: when the credential precondition fails at startup (load_cookies
\* raises SystemExit), run_daemon ends before any feed or storage call and
\* leaves no PID file behind.
C35_FatalPreconditionLeavesNoPid ==
    (d_pc = "load" /\ d_exit = "raised") =>
        /\ ~d_scraped
        /\ d_startCount = -1
        /\ d_cookies = "none"
        /\ ~d_pid

====
